---- MODULE Spec2Model ----
(***************************************************************************)
(* Model of the run-progression service (app/services/run) and of the      *)
(* auction service (app/services/auction) of the dungeons backend, with    *)
(* the MongoDB repositories they call.                                     *)
(*                                                                         *)
(* Every request is served by a process.  A handler is cut at the          *)
(* datastore round trips at which another request can be interleaved: the  *)
(* reads made before the transaction are separate steps from the           *)
(* transaction.  A transaction (mongodb.WithTransaction) is one atomic     *)
(* step at its commit point, or it aborts and leaves the database          *)
(* unchanged.                                                              *)
(***************************************************************************)
EXTENDS Integers, Sequences, FiniteSets, TLC

VARIABLES gold, inv, runs, attempts, credited, listings, trades, everSold, clock, pc, loc, last,
          nsteps, env, stepOrder

vars == <<gold, inv, runs, attempts, credited, listings, trades, everSold, clock, pc, loc, last,
          nsteps, env, stepOrder>>

\* what no request of a player changes: the dungeon, the order of its steps
\* and the requests the environment sends
fixed == <<nsteps, env, stepOrder>>

\* the collections; credited and everSold are history variables: how often the
\* rewards of a (run, step) were applied, which listings have been sold
db == <<gold, inv, runs, attempts, credited, listings, trades, everSold>>

(***************************************************************************)
(* Bounds                                                                  *)
(***************************************************************************)
MaxRuns == 2

MaxSteps == 2

MaxListings == 1

MaxTrades == 2

MaxClock == 2

Procs == {1, 2}

(***************************************************************************)
(* Fixtures: players, dungeons, boss steps, item definitions, positions    *)
(***************************************************************************)
Players == {"p1", "p2"}

\* "ghost" is the id of no player
Callers == Players \cup {"ghost"}

Dungeons == {"d1", "d2"}

DungeonIDs == Dungeons \cup {"d0"}

DungeonStatus(d) == IF d = "d1" THEN "published" ELSE "draft"

Items == {"sword", "relic"}

ItemIDs == Items \cup {"none"}

\* ItemDef.Tradable
Tradable(itemId) == itemId = "sword"

Keys == {"k1", "k2"}

BaseLat == 48856600

RadiusMm == 100000

StepGold == 50

\* about 500 m north of the steps (latitudes in microdegrees)
FarPosition == BaseLat + 4500

\* Rewards.Gold of a CreateBossStepRequest carries no validation tag: the
\* game master may set any amount, also a negative one.
RewardGolds == {StepGold, 0 - StepGold}

\* Boss steps of dungeon d1 have ids 1..nsteps, their order being
\* stepOrder[id]; step 0 is the one step of the draft dungeon d2.  The gold of step id is
\* id times the amount env.rewardGold that the game master chose.
StepIDs == 0..MaxSteps

\* BossStep.Location: every boss step of the model stands at one place
BossLocation == [lat |-> BaseLat, lon |-> 0, radiusMeters |-> RadiusMm]

BossStep(id) ==
  [id |-> id,
   dungeonId |-> IF id = 0 THEN "d2" ELSE "d1",
   order |-> stepOrder[id],
   lat |-> BossLocation.lat,
   lon |-> BossLocation.lon,
   radius |-> BossLocation.radiusMeters,
   rewards |-> [gold |-> env.rewardGold * (IF id = 0 THEN 1 ELSE id),
                items |-> IF id = 1 THEN <<[itemId |-> "sword", qty |-> 1]>> ELSE <<>>]]

Positions == {BaseLat, FarPosition}

\* the position on the meridian of the steps whose distance to them is the
\* radius itself, and the next one to the north
EdgePosition == BaseLat + 901

BeyondPosition == EdgePosition + 1

EdgePositions == {BaseLat, EdgePosition, BeyondPosition}

\* the orders of the seeded steps: 1, 2, ... in each dungeon
SeedOrder == [id \in StepIDs |-> IF id = 0 THEN 1 ELSE id]

(***************************************************************************)
(* geo.HaversineMeters                                                     *)
(***************************************************************************)
earthRadiusMeters == 6371000

Abs(x) == IF x < 0 THEN 0 - x ELSE x

\* A float64 is modelled as a decimal floating-point number m * 10^e whose
\* mantissa m keeps Digits significant digits; every operation truncates its
\* result toward zero to that many digits, so that, as with the sign and
\* magnitude of a float64, the result for negated operands is the negated
\* result.
Digits == 4

RECURSIVE Pow10(_)
Pow10(k) == IF k <= 0 THEN 1 ELSE 10 * Pow10(k - 1)

\* integer division that rounds toward zero
Quot(n, d) == IF n < 0 THEN 0 - ((0 - n) \div d) ELSE n \div d

RECURSIVE Float(_, _)
\* the float64 nearest to m * 10^e toward zero
Float(m, e) ==
  IF m = 0 THEN [m |-> 0, e |-> 0]
  ELSE IF Abs(m) >= Pow10(Digits) THEN Float(Quot(m, 10), e + 1)
  ELSE IF Abs(m) < Pow10(Digits - 1) THEN Float(m * 10, e - 1)
  ELSE [m |-> m, e |-> e]

FNeg(a) == [m |-> 0 - a.m, e |-> a.e]

\* a * b
FMul(a, b) == Float(a.m * b.m, a.e + b.e)

\* a / b, b not zero
FDiv(a, b) == Float(Quot(a.m * Pow10(Digits), b.m), a.e - b.e - Digits)

\* a + b
FAdd(a, b) ==
  IF a.m = 0 THEN b
  ELSE IF b.m = 0 THEN a
  ELSE LET hi == IF a.e >= b.e THEN a ELSE b
           lo == IF a.e >= b.e THEN b ELSE a
           diff == hi.e - lo.e
           low == IF diff <= Digits THEN lo.m * Pow10(Digits - diff)
                  ELSE IF diff <= 2 * Digits THEN Quot(lo.m, Pow10(diff - Digits))
                  ELSE 0
       IN Float(hi.m * Pow10(Digits) + low, hi.e - Digits)

\* a - b
FSub(a, b) == FAdd(a, FNeg(b))

One == Float(1, 0)

\* math.Pi
Pi == Float(3141592, 0 - 6)

RECURSIVE Root(_, _, _)
\* the largest r in lo..hi with r * r <= n
Root(n, lo, hi) ==
  IF lo >= hi THEN lo
  ELSE LET mid == (lo + hi + 1) \div 2
       IN IF mid * mid <= n THEN Root(n, mid, hi) ELSE Root(n, lo, mid - 1)

\* math.Sqrt(a), a >= 0
Sqrt(a) ==
  LET m == IF a.e % 2 = 0 THEN a.m ELSE a.m * 10
      e == IF a.e % 2 = 0 THEN a.e ELSE a.e - 1
  IN Float(Root(m * Pow10(Digits), 0, 4 * Pow10(Digits)), (e - Digits) \div 2)

RECURSIVE Series(_, _, _, _)
\* the terms of order k, k + 2, ..., order of the Taylor series of sine or
\* cosine; term is the term of order k and x2 the square of the argument
Series(term, x2, k, order) ==
  IF k > order THEN Float(0, 0)
  ELSE FAdd(term, Series(FNeg(FDiv(FMul(term, x2), Float((k + 1) * (k + 2), 0))), x2, k + 2, order))

\* math.Sin(a) and math.Cos(a) for |a| <= pi/2 (a latitude, or half a
\* difference of coordinates), by their Taylor polynomials
Sin(a) == Series(a, FMul(a, a), 1, 9)

Cos(a) == Series(One, FMul(a, a), 0, 10)

RECURSIVE xatan(_, _, _, _)
\* the terms of order k, k + 2, ..., order of the series of the arc tangent
xatan(power, t2, k, order) ==
  IF k > order THEN Float(0, 0)
  ELSE FAdd(FDiv(power, Float(k, 0)), xatan(FNeg(FMul(power, t2)), t2, k + 2, order))

\* math.Atan(t), t >= 0, with the range reduction of the library: the series
\* for t <= 0.66, pi/2 - atan(1/t) for t > tan(3 pi/8), and
\* pi/4 + atan((t - 1)/(t + 1)) between the two
Atan(t) ==
  IF FSub(Float(66, 0 - 2), t).m >= 0 THEN xatan(t, FMul(t, t), 1, 15)
  ELSE IF FSub(t, Float(2414213, 0 - 6)).m > 0
    THEN LET u == FDiv(One, t) IN FSub(FDiv(Pi, Float(2, 0)), xatan(u, FMul(u, u), 1, 15))
    ELSE LET u == FDiv(FSub(t, One), FAdd(t, One))
         IN FAdd(FDiv(Pi, Float(4, 0)), xatan(u, FMul(u, u), 1, 15))

\* math.Atan2(y, x) for y >= 0 and x >= 0, the quadrant of two square roots
Atan2(y, x) ==
  IF y.m = 0 THEN Float(0, 0)
  ELSE IF x.m = 0 THEN FDiv(Pi, Float(2, 0))
  ELSE Atan(FDiv(y, x))

\* v in degrees
toRadians(v) == FMul(v, FDiv(Pi, Float(180, 0)))

HaversineA_NoCos(dLat, dLon, lat1R, lat2R) ==
  LET sLat == Sin(FDiv(dLat, Float(2, 0)))
      sLon == Sin(FDiv(dLon, Float(2, 0)))
  IN FAdd(FMul(sLat, sLat), FMul(sLon, sLon))

\* a of HaversineMeters
HaversineA(dLat, dLon, lat1R, lat2R) ==
  LET sLat == Sin(FDiv(dLat, Float(2, 0)))
      sLon == Sin(FDiv(dLon, Float(2, 0)))
  IN FAdd(FMul(sLat, sLat), FMul(FMul(FMul(Cos(lat1R), Cos(lat2R)), sLon), sLon))

\* the whole number of thousandths in a
Milli(a) == IF a.e + 3 >= 0 THEN a.m * Pow10(a.e + 3) ELSE Quot(a.m, Pow10(0 - (a.e + 3)))

\* Latitudes and longitudes are in microdegrees (the difference of two of
\* them is exact, as is that of two float64 this close), the result is in
\* millimetres.
HaversineMeters(lat1, lon1, lat2, lon2) ==
  LET dLat == toRadians(Float(lat2 - lat1, 0 - 6))
      dLon == toRadians(Float(lon2 - lon1, 0 - 6))
      lat1R == toRadians(Float(lat1, 0 - 6))
      lat2R == toRadians(Float(lat2, 0 - 6))
      a == HaversineA(dLat, dLon, lat1R, lat2R)
      c == FMul(Float(2, 0), Atan2(Sqrt(a), Sqrt(FSub(One, a))))
  IN Milli(FMul(Float(earthRadiusMeters, 0), c))

\* distance of Service.Attempt: geo.HaversineMeters from each position a
\* request of the model can carry (on the meridian of the boss steps) to the
\* location of the boss steps, computed once
Distance == [pos \in Positions \cup EdgePositions |-> HaversineMeters(pos, 0, BossLocation.lat, BossLocation.lon)]

(***************************************************************************)
(* Repositories                                                            *)
(***************************************************************************)
\* dungeon.MongoRepository.GetDungeonByID
DungeonExists(d) == d \in Dungeons

\* dungeon.MongoRepository.GetStep: filter {_id, dungeonId}
StepExists(dungeonId, stepId) ==
  /\ stepId \in StepIDs
  /\ BossStep(stepId).dungeonId = dungeonId
  /\ (stepId = 0 \/ stepId <= nsteps)

\* dungeon.MongoRepository.ListStepsByDungeon, as len(steps)
StepCount(dungeonId) == IF dungeonId = "d1" THEN nsteps ELSE 1

HasActiveRun_AnyState(playerId, dungeonId) ==
  \E i \in 1..Len(runs) :
    /\ runs[i].playerId = playerId
    /\ runs[i].dungeonId = dungeonId

\* run.MongoRepository.HasActiveRun
HasActiveRun(playerId, dungeonId) ==
  \E i \in 1..Len(runs) :
    /\ runs[i].playerId = playerId
    /\ runs[i].dungeonId = dungeonId
    /\ runs[i].state = "active"

ActiveRunIndexViolated_NoIndex(rs, id, r) == FALSE

\* The partial unique index {playerId, dungeonId, state} on state = active:
\* does writing document r as run number id violate it?
ActiveRunIndexViolated(rs, id, r) ==
  /\ r.state = "active"
  /\ \E i \in 1..Len(rs) :
       /\ i # id
       /\ rs[i].playerId = r.playerId
       /\ rs[i].dungeonId = r.dungeonId
       /\ rs[i].state = "active"

\* run.MongoRepository.CreateRun: "ok" or the error
CreateRunResult(r) ==
  IF ActiveRunIndexViolated(runs, Len(runs) + 1, r) THEN "Conflict" ELSE "ok"

\* run.MongoRepository.GetAttemptRecord
AttemptRecordsOf(runId, stepId) ==
  {a \in attempts : a.runId = runId /\ a.stepId = stepId}

AttemptIndexViolated_NoIndex(runId, stepId) == FALSE

\* The unique index {runId, stepId} of the attempts collection, as checked
\* by the insert of CreateAttemptRecord.
AttemptIndexViolated(runId, stepId) == AttemptRecordsOf(runId, stepId) # {}

CreateAttemptRecord_Skipped(records, record) == records

\* run.MongoRepository.CreateAttemptRecord, when the unique index lets the
\* insert pass
CreateAttemptRecord(records, record) == records \cup {record}

\* functions.NewUUID for an attempt record: an id that no record has
UpdateAttemptRecord_Skipped(records, id, response, rewardApplied) == records

\* run.MongoRepository.UpdateAttemptRecord: $set of response and rewardApplied
\* on the record of that _id
UpdateAttemptRecord(records, id, response, rewardApplied) ==
  {IF record.id = id
     THEN [record EXCEPT !.response = response, !.rewardApplied = rewardApplied]
     ELSE record : record \in records}

NewAttemptID(runId, stepId) == <<runId, stepId, Cardinality(AttemptRecordsOf(runId, stepId)) + 1>>

\* inventory.MongoRepository.AddItem: upsert with $inc
AddItem(iv, playerId, itemId, qty) ==
  [iv EXCEPT ![playerId][itemId] = @ + qty]

RECURSIVE AddItems(_, _, _)
\* the loop over step.Rewards.Items of Service.Attempt
AddItems(iv, playerId, items) ==
  IF items = <<>> THEN iv
  ELSE AddItems(AddItem(iv, playerId, Head(items).itemId, Head(items).qty), playerId, Tail(items))

\* AddItem rejects qty <= 0 with a validation error
ItemsValid(items) == \A i \in 1..Len(items) : items[i].qty > 0

IncrementGold_Dropped(g, playerId, delta) == g

\* player.MongoRepository.IncrementGold
IncrementGold(g, playerId, delta) == [g EXCEPT ![playerId] = @ + delta]

\* the zero value of models.AttemptResponse
ZeroResponse ==
  [runId |-> 0, stepId |-> 0, distanceM |-> 0, rewards |-> [gold |-> 0, items |-> <<>>],
   run |-> [id |-> 0, dungeonId |-> "", playerId |-> "", state |-> "", currentStep |-> 0,
            killedSteps |-> <<>>, ended |-> FALSE],
   playerGold |-> 0, idempotency |-> FALSE]

\* Service.decodeAttemptResponse: the stored payload read back field by field;
\* the payload of a pending record is nil and decodes to the zero value
decodeAttemptResponse(raw) ==
  IF raw = [runId |-> 0] THEN ZeroResponse
  ELSE [runId |-> raw.runId, stepId |-> raw.stepId, distanceM |-> raw.distanceM,
        rewards |-> raw.rewards, run |-> raw.run, playerGold |-> raw.playerGold,
        idempotency |-> raw.idempotency]

(***************************************************************************)
(* Processes                                                               *)
(***************************************************************************)
NoLoc == [op |-> "none"]

NoResp == [runId |-> 0]

Finish(p, res) ==
  /\ pc' = [pc EXCEPT ![p] = "idle"]
  /\ loc' = [loc EXCEPT ![p] = NoLoc]
  /\ last' = res

Goto(p, label, l) ==
  /\ pc' = [pc EXCEPT ![p] = label]
  /\ loc' = [loc EXCEPT ![p] = l]
  /\ last' = last

NewRun_AtStepZero(id, playerId, dungeonId) ==
  [id |-> id, dungeonId |-> dungeonId, playerId |-> playerId,
   state |-> "active", currentStep |-> 0, killedSteps |-> <<>>, ended |-> FALSE]

\* the collections a transaction writes
Durable ==
  [gold |-> gold, inv |-> inv, runs |-> runs, attempts |-> attempts,
   listings |-> listings, trades |-> trades]

AbortTransaction_KeepsWrites(before, written) == written

\* mongodb.WithTransaction when fn fails: session.AbortTransaction discards
\* what fn has written and leaves the collections as they were
AbortTransaction(before, written) == before

\* the collections after the transaction has ended with content d
Ended(d) ==
  /\ gold' = d.gold
  /\ inv' = d.inv
  /\ runs' = d.runs
  /\ attempts' = d.attempts
  /\ listings' = d.listings
  /\ trades' = d.trades
  /\ UNCHANGED <<credited, everSold>>

\* the run that Start builds
NewRun(id, playerId, dungeonId) ==
  [id |-> id, dungeonId |-> dungeonId, playerId |-> playerId,
   state |-> "active", currentStep |-> 1, killedSteps |-> <<>>, ended |-> FALSE]

StartsInFlight == Cardinality({q \in Procs : pc[q] = "start_create"})

(***************************************************************************)
(* run.Service.Start                                                       *)
(***************************************************************************)
\* at: the call of Start that produced the answer
StartResult(caller, dungeonId, outcome, at, runId) ==
  [op |-> "Start", caller |-> caller, dungeonId |-> dungeonId, outcome |-> outcome,
   at |-> at, runId |-> runId]

\* Start up to and including the HasActiveRun read
StartCheck(p) ==
  /\ pc[p] = "idle"
  /\ Len(runs) + StartsInFlight < MaxRuns
  /\ \E caller \in env.callers, dungeonId \in env.dungeonIds :
       /\ UNCHANGED <<db, clock, fixed>>
       /\ IF ~DungeonExists(dungeonId)
            THEN Finish(p, StartResult(caller, dungeonId, "NotFound", "GetDungeonByID", 0))
          ELSE IF DungeonStatus(dungeonId) # "published"
            THEN Finish(p, StartResult(caller, dungeonId, "Validation", "GetDungeonByID", 0))
          ELSE IF caller \notin Players
            THEN Finish(p, StartResult(caller, dungeonId, "NotFound", "GetByID", 0))
          ELSE IF HasActiveRun(caller, dungeonId)
            THEN Finish(p, StartResult(caller, dungeonId, "Conflict", "HasActiveRun", 0))
          ELSE Goto(p, "start_create", [op |-> "Start", caller |-> caller, dungeonId |-> dungeonId])

\* Start from the construction of the run: the CreateRun insert
StartCreate(p) ==
  /\ pc[p] = "start_create"
  /\ LET l == loc[p]
         run == NewRun(Len(runs) + 1, l.caller, l.dungeonId)
     IN IF CreateRunResult(run) = "ok"
          THEN /\ runs' = Append(runs, run)
               /\ Finish(p, StartResult(l.caller, l.dungeonId, "ok", "CreateRun", run.id))
          ELSE /\ runs' = runs
               /\ Finish(p, StartResult(l.caller, l.dungeonId, CreateRunResult(run), "CreateRun", 0))
  /\ UNCHANGED <<gold, inv, attempts, credited, listings, trades, everSold, clock, fixed>>

(***************************************************************************)
(* run.Service.Attempt                                                     *)
(***************************************************************************)
AttemptResult(l, outcome, resp) ==
  [op |-> "Attempt", caller |-> l.caller, runId |-> l.runId, stepId |-> l.stepId,
   pos |-> l.pos, key |-> l.key, outcome |-> outcome, resp |-> resp]

WrongStepOrder_OnlyAhead(step, run) == step.order > run.currentStep

\* step.Order != run.CurrentStep
WrongStepOrder(step, run) == step.order # run.currentStep

NotInRange_Never(distance, radius) == FALSE

NotInRange_AtRadius(distance, radius) == distance >= radius

\* distance > step.Location.RadiusMeters
NotInRange(distance, radius) == distance > radius

AttemptChecks_StateBeforeOwner(caller, runId, stepId, pos) ==
  IF runId \notin 1..Len(runs) THEN "NotFound"
  ELSE IF runs[runId].state # "active" THEN "Conflict"
  ELSE IF runs[runId].playerId # caller THEN "Forbidden"
  ELSE IF ~StepExists(runs[runId].dungeonId, stepId) THEN "NotFound"
  ELSE IF WrongStepOrder(BossStep(stepId), runs[runId]) THEN "WrongStepOrder"
  ELSE IF NotInRange(Distance[pos],
                     BossStep(stepId).radius) THEN "NotInRange"
  ELSE "pass"

AttemptChecks_AnyState(caller, runId, stepId, pos) ==
  IF runId \notin 1..Len(runs) THEN "NotFound"
  ELSE IF runs[runId].playerId # caller THEN "Forbidden"
  ELSE IF ~StepExists(runs[runId].dungeonId, stepId) THEN "NotFound"
  ELSE IF WrongStepOrder(BossStep(stepId), runs[runId]) THEN "WrongStepOrder"
  ELSE IF NotInRange(Distance[pos],
                     BossStep(stepId).radius) THEN "NotInRange"
  ELSE "pass"

AttemptChecks_OrderBeforeState(caller, runId, stepId, pos) ==
  IF runId \notin 1..Len(runs) THEN "NotFound"
  ELSE IF runs[runId].playerId # caller THEN "Forbidden"
  ELSE IF ~StepExists(runs[runId].dungeonId, stepId) THEN "NotFound"
  ELSE IF WrongStepOrder(BossStep(stepId), runs[runId]) THEN "WrongStepOrder"
  ELSE IF runs[runId].state # "active" THEN "Conflict"
  ELSE IF NotInRange(Distance[pos],
                     BossStep(stepId).radius) THEN "NotInRange"
  ELSE "pass"

\* The checks of Attempt from the loaded run to the geofence; "pass" when
\* none fails.
AttemptChecks(caller, runId, stepId, pos) ==
  IF runId \notin 1..Len(runs) THEN "NotFound"
  ELSE IF runs[runId].playerId # caller THEN "Forbidden"
  ELSE IF runs[runId].state # "active" THEN "Conflict"
  ELSE IF ~StepExists(runs[runId].dungeonId, stepId) THEN "NotFound"
  ELSE IF WrongStepOrder(BossStep(stepId), runs[runId]) THEN "WrongStepOrder"
  ELSE IF NotInRange(Distance[pos],
                     BossStep(stepId).radius) THEN "NotInRange"
  ELSE "pass"

\* Attempt from GetRunByID to the geofence check
AttemptLoad(p) ==
  /\ pc[p] = "idle"
  /\ \E caller \in env.callers \cap Players, runId \in 1..(Len(runs) + 1), stepId \in env.stepIds,
        pos \in env.positions, key \in env.keys :
       LET l == [op |-> "Attempt", caller |-> caller, runId |-> runId, stepId |-> stepId,
                 pos |-> pos, key |-> key]
           outcome == AttemptChecks(caller, runId, stepId, pos)
       IN IF outcome = "pass"
            THEN Goto(p, "attempt_lookup",
                      [l EXCEPT !.op = "Attempt"] @@
                      [run |-> runs[runId],
                       distance |-> Distance[pos]])
            ELSE Finish(p, AttemptResult(l, outcome, NoResp))
  /\ UNCHANGED <<db, clock, fixed>>

ReplayOutcome_IgnoresPending(existing, key) ==
  IF existing.idempotencyKey # "" /\ existing.idempotencyKey # key THEN "AlreadyHandled"
  ELSE "ok"

\* The answer of Attempt from an attempt record found before the transaction
ReplayOutcome(existing, key) ==
  IF existing.idempotencyKey # "" /\ existing.idempotencyKey # key THEN "AlreadyHandled"
  ELSE IF ~existing.rewardApplied THEN "AlreadyHandled"
  ELSE "ok"

\* Attempt at the GetAttemptRecord read
AttemptLookup(p) ==
  /\ pc[p] = "attempt_lookup"
  /\ LET l == loc[p]
         found == AttemptRecordsOf(l.runId, l.stepId)
     IN IF found # {}
          THEN \E existing \in found :
                 IF ReplayOutcome(existing, l.key) = "ok"
                   THEN Finish(p, AttemptResult(l, "ok",
                                 [decodeAttemptResponse(existing.response) EXCEPT !.idempotency = TRUE]))
                   ELSE Finish(p, AttemptResult(l, ReplayOutcome(existing, l.key), NoResp))
          ELSE Goto(p, "attempt_tx", l)
  /\ UNCHANGED <<db, clock, fixed>>

AdvanceRun_OffByOne(run, stepId, attemptId, stepCount) ==
  LET cur == run.currentStep + 1
  IN [run EXCEPT !.killedSteps = Append(@, [bossStepId |-> stepId, attemptId |-> attemptId]),
                 !.currentStep = cur,
                 !.state = IF cur >= stepCount THEN "completed" ELSE @,
                 !.ended = IF cur >= stepCount THEN TRUE ELSE @]

\* The run as advanced inside the transaction, from the run loaded before it
AdvanceRun(run, stepId, attemptId, stepCount) ==
  LET cur == run.currentStep + 1
  IN [run EXCEPT !.killedSteps = Append(@, [bossStepId |-> stepId, attemptId |-> attemptId]),
                 !.currentStep = cur,
                 !.state = IF cur > stepCount THEN "completed" ELSE @,
                 !.ended = IF cur > stepCount THEN TRUE ELSE @]

\* an answer given from the record read back after the duplicate-key error
ReadBack(result) == result @@ [at |-> "readback"]

DuplicateOutcome_AnyKey(record, key) == "ok"

\* The answer of Attempt after the insert hit the {runId, stepId} index
DuplicateOutcome(record, key) ==
  IF record.idempotencyKey # "" /\ record.idempotencyKey # key THEN "AlreadyHandled" ELSE "ok"

\* Attempt: the transaction, and the read-back after a duplicate key
AttemptTx(p) ==
  /\ pc[p] = "attempt_tx"
  /\ LET l == loc[p]
         step == BossStep(l.stepId)
         recId == NewAttemptID(l.runId, l.stepId)
         newRun == AdvanceRun(l.run, l.stepId, recId, StepCount(l.run.dungeonId))
         newGold == IncrementGold(gold, l.caller, step.rewards.gold)
         response == [runId |-> l.runId, stepId |-> l.stepId, distanceM |-> l.distance,
                      rewards |-> step.rewards, run |-> newRun,
                      playerGold |-> newGold[l.caller], idempotency |-> FALSE]
         record == [id |-> recId, runId |-> l.runId, stepId |-> l.stepId, playerId |-> l.caller,
                    idempotencyKey |-> l.key, rewardApplied |-> FALSE, response |-> NoResp]
     IN IF AttemptIndexViolated(l.runId, l.stepId)
          THEN /\ UNCHANGED db
               /\ \E existing \in AttemptRecordsOf(l.runId, l.stepId) :
                    IF DuplicateOutcome(existing, l.key) = "ok"
                      THEN Finish(p, ReadBack(AttemptResult(l, "ok",
                                    [decodeAttemptResponse(existing.response) EXCEPT !.idempotency = TRUE])))
                      ELSE Finish(p, ReadBack(AttemptResult(l, "AlreadyHandled", NoResp)))
        ELSE IF ~ItemsValid(step.rewards.items) \/ ActiveRunIndexViolated(runs, l.runId, newRun)
          THEN /\ UNCHANGED db
               /\ Finish(p, AttemptResult(l, "Error", NoResp))
        ELSE /\ attempts' = UpdateAttemptRecord(CreateAttemptRecord(attempts, record),
                                                 recId, response, TRUE)
             /\ gold' = newGold
             /\ inv' = AddItems(inv, l.caller, step.rewards.items)
             /\ runs' = [runs EXCEPT ![l.runId] = newRun]
             /\ credited' = [credited EXCEPT ![<<l.runId, l.stepId>>] = @ + 1]
             /\ UNCHANGED <<listings, trades, everSold>>
             /\ Finish(p, AttemptResult(l, "ok", response))
  /\ UNCHANGED <<clock, fixed>>

\* The collections after the first k writes of the transaction of Attempt:
\* CreateAttemptRecord, IncrementGold, the AddItem loop, ReplaceRun
AttemptWritten(l, k) ==
  LET step == BossStep(l.stepId)
      recId == NewAttemptID(l.runId, l.stepId)
      record == [id |-> recId, runId |-> l.runId, stepId |-> l.stepId, playerId |-> l.caller,
                 idempotencyKey |-> l.key, rewardApplied |-> FALSE, response |-> NoResp]
  IN [Durable EXCEPT
        !.attempts = IF k >= 1 THEN CreateAttemptRecord(@, record) ELSE @,
        !.gold = IF k >= 2 THEN IncrementGold(@, l.caller, step.rewards.gold) ELSE @,
        !.inv = IF k >= 3 /\ ItemsValid(step.rewards.items)
                  THEN AddItems(@, l.caller, step.rewards.items) ELSE @,
        !.runs = IF k >= 4
                   THEN [@ EXCEPT ![l.runId] = AdvanceRun(l.run, l.stepId, recId, StepCount(l.run.dungeonId))]
                   ELSE @]

\* A transaction of Attempt that does not commit (write conflict, deadline,
\* datastore error) after k of its writes: AbortTransaction, and the error is
\* returned.
AttemptAbort(p) ==
  /\ pc[p] = "attempt_tx"
  /\ \E k \in 0..4 : Ended(AbortTransaction(Durable, AttemptWritten(loc[p], k)))
  /\ Finish(p, AttemptResult(loc[p], "Error", NoResp))
  /\ UNCHANGED <<clock, fixed>>

(***************************************************************************)
(* Specifications of the run progression                                   *)
(***************************************************************************)
EmptyDatabase ==
  /\ gold = [pl \in Players |-> 0]
  /\ inv = [pl \in Players |-> [it \in Items |-> 0]]
  /\ runs = <<>>
  /\ attempts = {}
  /\ credited = [rs \in (1..MaxRuns) \X StepIDs |-> 0]
  /\ listings = <<>>
  /\ trades = <<>>
  /\ everSold = {}
  /\ clock = 0

NoRequest ==
  /\ pc = [p \in Procs |-> "idle"]
  /\ loc = [p \in Procs |-> NoLoc]
  /\ last = NoLoc

\* Start and Attempt requests of two players, from the position of the steps
InitRun ==
  /\ EmptyDatabase
  /\ NoRequest
  /\ stepOrder = SeedOrder
  /\ nsteps \in 1..MaxSteps
  /\ env = [callers |-> Players, dungeonIds |-> Dungeons, stepIds |-> 1..MaxSteps,
            keys |-> {"k1"}, positions |-> {BaseLat}, rewardGold |-> StepGold]

NextRun ==
  \E p \in Procs :
    \/ StartCheck(p)
    \/ StartCreate(p)
    \/ AttemptLoad(p)
    \/ AttemptLookup(p)
    \/ AttemptTx(p)
    \/ AttemptAbort(p)

SpecRun == InitRun /\ [][NextRun]_vars

\* Attempt requests of every kind on the run that p1 has just started
InitAttempt ==
  /\ gold = [pl \in Players |-> 0]
  /\ inv = [pl \in Players |-> [it \in Items |-> 0]]
  /\ runs = <<NewRun(1, "p1", "d1")>>
  /\ attempts = {}
  /\ credited = [rs \in (1..MaxRuns) \X StepIDs |-> 0]
  /\ listings = <<>>
  /\ trades = <<>>
  /\ everSold = {}
  /\ clock = 0
  /\ NoRequest
  /\ stepOrder = SeedOrder
  /\ nsteps \in 1..MaxSteps
  /\ env = [callers |-> Players, dungeonIds |-> DungeonIDs, stepIds |-> StepIDs,
            keys |-> Keys, positions |-> Positions, rewardGold |-> StepGold]

NextAttempt ==
  \E p \in Procs :
    \/ AttemptLoad(p)
    \/ AttemptLookup(p)
    \/ AttemptTx(p)
    \/ AttemptAbort(p)

SpecAttempt == InitAttempt /\ [][NextAttempt]_vars

\* Start requests of every kind, also for a missing dungeon or player
InitStart ==
  /\ EmptyDatabase
  /\ NoRequest
  /\ stepOrder = SeedOrder
  /\ nsteps \in 1..MaxSteps
  /\ env = [callers |-> Callers, dungeonIds |-> DungeonIDs, stepIds |-> StepIDs,
            keys |-> Keys, positions |-> Positions, rewardGold |-> StepGold]

NextStart ==
  \E p \in Procs :
    \/ StartCheck(p)
    \/ StartCreate(p)

SpecStart == InitStart /\ [][NextStart]_vars

(***************************************************************************)
(* dungeon.Service.ReorderSteps, while attempts are in progress            *)
(***************************************************************************)
\* the map newOrder of Service.ReorderSteps: each step id of the request
\* gets idx + 1 of the last index idx at which it occurs
NewOrder(stepIds) ==
  [id \in {stepIds[i] : i \in DOMAIN stepIds} |->
     CHOOSE k \in DOMAIN stepIds : stepIds[k] = id /\ \A j \in DOMAIN stepIds : stepIds[j] = id => j <= k]

\* the unique index {dungeonId, order} of the steps: another step of
\* dungeon d1 holds order k
StepOrderTaken(orders, id, k) == \E other \in (1..nsteps) \ {id} : orders[other] = k

RECURSIVE ReorderUpdates(_, _, _)
\* dungeon.MongoRepository.ReorderSteps: one UpdateOne per entry of the map,
\* in the order todo in which the map is iterated; the first update that
\* hits the unique index ends the loop with Conflict, and the updates made
\* before it stay
ReorderUpdates(orders, newOrder, todo) ==
  IF todo = <<>> THEN [orders |-> orders, outcome |-> "ok"]
  ELSE IF StepOrderTaken(orders, Head(todo), newOrder[Head(todo)])
    THEN [orders |-> orders, outcome |-> "Conflict"]
    ELSE ReorderUpdates([orders EXCEPT ![Head(todo)] = newOrder[Head(todo)]], newOrder, Tail(todo))

\* the orders in which a map with key set S can be iterated
Iterations(S) ==
  {todo \in [1..Cardinality(S) -> S] : \A i, j \in 1..Cardinality(S) : todo[i] = todo[j] => i = j}

\* Service.ReorderSteps by the game master of dungeon d1, with a request of
\* as many step ids as the dungeon has steps, each the id of a step
ReorderSteps(p) ==
  /\ pc[p] = "idle"
  /\ \E stepIds \in [1..nsteps -> 1..nsteps] :
       \E todo \in Iterations(DOMAIN NewOrder(stepIds)) :
         LET res == ReorderUpdates(stepOrder, NewOrder(stepIds), todo)
         IN /\ stepOrder' = res.orders
            /\ Finish(p, [op |-> "ReorderSteps", stepIds |-> stepIds, outcome |-> res.outcome])
  /\ UNCHANGED <<db, clock, nsteps, env>>

\* the orders 1, 3, 5, ... that the game master gave the steps of dungeon d1
\* when creating them
SparseOrder == [id \in StepIDs |-> IF id = 0 THEN 1 ELSE 2 * id - 1]

\* Attempt requests of p1 on the run p1 has just started, in a dungeon whose
\* steps the game master reorders
InitReorder ==
  /\ gold = [pl \in Players |-> 0]
  /\ inv = [pl \in Players |-> [it \in Items |-> 0]]
  /\ runs = <<NewRun(1, "p1", "d1")>>
  /\ attempts = {}
  /\ credited = [rs \in (1..MaxRuns) \X StepIDs |-> 0]
  /\ listings = <<>>
  /\ trades = <<>>
  /\ everSold = {}
  /\ clock = 0
  /\ pc = [p \in Procs |-> "idle"]
  /\ loc = [p \in Procs |-> NoLoc]
  /\ last = NoLoc
  /\ nsteps = MaxSteps
  /\ stepOrder = SparseOrder
  /\ env = [callers |-> {"p1"}, dungeonIds |-> {"d1"}, stepIds |-> 1..MaxSteps,
            keys |-> {"k1"}, positions |-> {BaseLat}, rewardGold |-> StepGold]

NextReorder ==
  \/ NextAttempt
  \/ \E p \in Procs : ReorderSteps(p)

SpecReorder == InitReorder /\ [][NextReorder]_vars

\* the idempotency key of the record a crashed settlement left behind
PendingKey == "k1"

\* an AttemptRecord as Service.Attempt builds it before its transaction
PendingRecord(runId, stepId, playerId, key) ==
  [id |-> <<runId, stepId, 1>>, runId |-> runId, stepId |-> stepId, playerId |-> playerId,
   idempotencyKey |-> key, rewardApplied |-> FALSE, response |-> NoResp]

\* Attempt requests of p1 on its run, when the attempts collection holds a
\* record of the last step that is still in pending form
InitPending ==
  /\ gold = [pl \in Players |-> 0]
  /\ inv = [pl \in Players |-> [it \in Items |-> 0]]
  /\ runs = <<NewRun(1, "p1", "d1")>>
  /\ attempts = {PendingRecord(1, MaxSteps, "p1", PendingKey)}
  /\ credited = [rs \in (1..MaxRuns) \X StepIDs |-> 0]
  /\ listings = <<>>
  /\ trades = <<>>
  /\ everSold = {}
  /\ clock = 0
  /\ NoRequest
  /\ stepOrder = SeedOrder
  /\ nsteps = MaxSteps
  /\ env = [callers |-> {"p1"}, dungeonIds |-> {"d1"}, stepIds |-> 1..MaxSteps,
            keys |-> Keys, positions |-> {BaseLat}, rewardGold |-> StepGold]

SpecPending == InitPending /\ [][NextAttempt]_vars

\* Attempt requests of p1 on its run from the centre of the geofence, from
\* its edge and from just outside
InitBoundary ==
  /\ gold = [pl \in Players |-> 0]
  /\ inv = [pl \in Players |-> [it \in Items |-> 0]]
  /\ runs = <<NewRun(1, "p1", "d1")>>
  /\ attempts = {}
  /\ credited = [rs \in (1..MaxRuns) \X StepIDs |-> 0]
  /\ listings = <<>>
  /\ trades = <<>>
  /\ everSold = {}
  /\ clock = 0
  /\ NoRequest
  /\ stepOrder = SeedOrder
  /\ nsteps = MaxSteps
  /\ env = [callers |-> {"p1"}, dungeonIds |-> {"d1"}, stepIds |-> 1..MaxSteps,
            keys |-> {"k1"}, positions |-> EdgePositions, rewardGold |-> StepGold]

SpecBoundary == InitBoundary /\ [][NextAttempt]_vars

(***************************************************************************)
(* Distances between points of Paris                                       *)
(***************************************************************************)
\* the two points of TestHaversineMeters, in microdegrees
EiffelLat == 48858370

EiffelLon == 2294481

LouvreLat == 48860611

LouvreLon == 2337644

Eiffel == [lat |-> EiffelLat, lon |-> EiffelLon]

Louvre == [lat |-> LouvreLat, lon |-> LouvreLon]

\* the two monuments, the boss steps, the far position, and the points with
\* the latitude of one of them and the longitude of another
GeoPoints == [lat : {EiffelLat, LouvreLat, BossLocation.lat, FarPosition},
              lon : {EiffelLon, LouvreLon, BossLocation.lon}]

\* one call of geo.HaversineMeters
Measure(p) ==
  /\ pc[p] = "idle"
  /\ \E from \in env.points, to \in env.points :
       Finish(p, [op |-> "HaversineMeters", from |-> from, to |-> to,
                  distance |-> HaversineMeters(from.lat, from.lon, to.lat, to.lon)])
  /\ UNCHANGED <<db, clock, fixed>>

InitGeo ==
  /\ EmptyDatabase
  /\ NoRequest
  /\ stepOrder = SeedOrder
  /\ nsteps = 1
  /\ env = [points |-> GeoPoints, rewardGold |-> StepGold]

NextGeo == \E p \in Procs : Measure(p)

SpecGeo == InitGeo /\ [][NextGeo]_vars

(***************************************************************************)
(* auction.Service and its repositories                                    *)
(***************************************************************************)
RemoveItemMatches_Always(iv, playerId, itemId, qty) == TRUE

\* inventory.MongoRepository.RemoveItem: the filter {playerId, itemId, qty >= qty}
RemoveItemMatches(iv, playerId, itemId, qty) == iv[playerId][itemId] >= qty

\* inventory.MongoRepository.RemoveItem: $inc by -qty
RemoveItem(iv, playerId, itemId, qty) == [iv EXCEPT ![playerId][itemId] = @ - qty]

\* player.MongoRepository.SetGold
SetGold(g, playerId, amount) == [g EXCEPT ![playerId] = amount]

\* validate.Struct of CreateListingRequest
ValidCreateListing(qty, pricePerUnit, expiresInH) ==
  /\ qty >= 1
  /\ pricePerUnit >= 1
  /\ (expiresInH = 0 \/ (expiresInH >= 1 /\ expiresInH <= 720))

RECURSIVE Pow2(_)
Pow2(k) == IF k = 0 THEN 1 ELSE 2 * Pow2(k - 1)

\* Gold is an int64.  The amounts of a specification are counted in a unit of
\* 2^goldUnitBits gold pieces, given by env; 0 (one gold piece) when env does
\* not name it.  Sums, differences and products of multiples of the unit are
\* multiples of it, so the arithmetic modulo 2^64 is followed exactly.
GoldUnitBits == IF "goldUnitBits" \in DOMAIN env THEN env.goldUnitBits ELSE 0

\* 2^63 in units; with the unit of one gold piece no amount of the model
\* comes near it
Int64Half == Pow2(63 - GoldUnitBits)

\* x is representable as an int64
InInt64(x) == GoldUnitBits = 0 \/ (x >= 0 - Int64Half /\ x < Int64Half)

\* the int64 result of a Go operation whose exact result is x
Wrap64(x) ==
  IF GoldUnitBits = 0 THEN x
  ELSE ((x + Int64Half) % (2 * Int64Half)) - Int64Half

TotalPrice_UnitPrice(qty, pricePerUnit) == pricePerUnit

\* totalPrice := req.Qty * listing.PricePerUnit
TotalPrice(qty, pricePerUnit) == Wrap64(qty * pricePerUnit)

\* buyer.Gold < totalPrice
InsufficientFunds(balance, totalPrice) == balance < totalPrice

Expired_Never(listing, now) == FALSE

\* listing.ExpiresAt != nil && listing.ExpiresAt.Before(now); 0 stands for nil
Expired(listing, now) == listing.expiresAt # 0 /\ listing.expiresAt < now

CreateListingResult(caller, itemId, qty, pricePerUnit, outcome, listingId) ==
  [op |-> "CreateListing", caller |-> caller, itemId |-> itemId, qty |-> qty,
   pricePerUnit |-> pricePerUnit, outcome |-> outcome, listingId |-> listingId]

\* auction.Service.CreateListing; nothing that another request can change is
\* read before the transaction
CreateListing(p) ==
  /\ pc[p] = "idle"
  /\ Len(listings) < MaxListings
  /\ \E seller \in env.sellers, itemId \in env.itemIds, qty \in env.qtys,
        pricePerUnit \in env.prices, expiresInH \in env.expiries :
       LET listing == [id |-> Len(listings) + 1, sellerId |-> seller, buyerId |-> "",
                       itemId |-> itemId, qty |-> qty, pricePerUnit |-> pricePerUnit,
                       status |-> "active",
                       expiresAt |-> IF expiresInH > 0 THEN clock + expiresInH ELSE 0]
           fail(outcome) ==
             /\ UNCHANGED db
             /\ Finish(p, CreateListingResult(seller, itemId, qty, pricePerUnit, outcome, 0))
       IN IF ~ValidCreateListing(qty, pricePerUnit, expiresInH) THEN fail("Validation")
          ELSE IF itemId \notin Items THEN fail("NotFound")
          ELSE IF ~Tradable(itemId) THEN fail("Conflict")
          ELSE IF ~RemoveItemMatches(inv, seller, itemId, qty) THEN fail("Conflict")
          ELSE /\ inv' = RemoveItem(inv, seller, itemId, qty)
               /\ listings' = Append(listings, listing)
               /\ UNCHANGED <<gold, runs, attempts, credited, trades, everSold>>
               /\ Finish(p, CreateListingResult(seller, itemId, qty, pricePerUnit, "ok", listing.id))
  /\ UNCHANGED <<clock, fixed>>

\* The transaction of CreateListing does not commit: it fails at RemoveItem
\* (k = 0) or at the insert of the listing (k = 1)
CreateListingAbort(p) ==
  /\ pc[p] = "idle"
  /\ Len(listings) < MaxListings
  /\ \E seller \in env.sellers, itemId \in env.itemIds, qty \in env.qtys,
        pricePerUnit \in env.prices, expiresInH \in env.expiries, k \in 0..1 :
       /\ ValidCreateListing(qty, pricePerUnit, expiresInH)
       /\ itemId \in Items
       /\ Tradable(itemId)
       /\ k = 1 => RemoveItemMatches(inv, seller, itemId, qty)
       /\ Ended(AbortTransaction(Durable,
                   [Durable EXCEPT !.inv = IF k = 1 THEN RemoveItem(@, seller, itemId, qty) ELSE @]))
       /\ Finish(p, CreateListingResult(seller, itemId, qty, pricePerUnit, "Error", 0))
  /\ UNCHANGED <<clock, fixed>>

BuyResult(l, outcome, out) ==
  [op |-> "Buy", caller |-> l.caller, listingId |-> l.listingId, qty |-> l.qty,
   outcome |-> outcome, out |-> out]

NoListing == [id |-> 0]

\* The checks of Buy on the listing it loaded; "pass" when none fails.
BuyChecks(buyer, listingId, qty) ==
  IF qty < 1 THEN "Validation"
  ELSE IF listingId \notin 1..Len(listings) THEN "NotFound"
  ELSE IF listings[listingId].status # "active" THEN "Conflict"
  ELSE IF listings[listingId].sellerId = buyer THEN "Conflict"
  ELSE IF qty > listings[listingId].qty THEN "Conflict"
  ELSE IF Expired(listings[listingId], clock) THEN "Conflict"
  ELSE "pass"

\* Buy from GetByID to the expiry check
BuyLoad(p) ==
  /\ pc[p] = "idle"
  /\ \E buyer \in env.callers, listingId \in 1..(Len(listings) + 1), qty \in env.qtys :
       LET l == [op |-> "Buy", caller |-> buyer, listingId |-> listingId, qty |-> qty]
           outcome == BuyChecks(buyer, listingId, qty)
       IN IF outcome = "pass"
            THEN Goto(p, "buy_tx", l @@ [listing |-> listings[listingId]])
            ELSE Finish(p, BuyResult(l, outcome, NoListing))
  /\ UNCHANGED <<db, clock, fixed>>

BoughtListing_NoBuyer(listing, buyerId, qty) ==
  IF qty = listing.qty
    THEN [listing EXCEPT !.status = "sold", !.qty = 0]
    ELSE [listing EXCEPT !.qty = @ - qty]

BoughtListing_StaysActive(listing, buyerId, qty) == [listing EXCEPT !.qty = @ - qty]

\* The listing that Buy writes, from the listing loaded before the transaction
BoughtListing(listing, buyerId, qty) ==
  IF qty = listing.qty
    THEN [listing EXCEPT !.status = "sold", !.buyerId = buyerId, !.qty = 0]
    ELSE [listing EXCEPT !.qty = @ - qty]

\* Buy: the transaction.  The $inc of IncrementGold fails when the sum does
\* not fit an int64, and the transaction aborts.
BuyTx(p) ==
  /\ pc[p] = "buy_tx"
  /\ Len(trades) < MaxTrades
  /\ LET l == loc[p]
         totalPrice == TotalPrice(l.qty, l.listing.pricePerUnit)
         debited == SetGold(gold, l.caller, Wrap64(gold[l.caller] - totalPrice))
         updated == BoughtListing(l.listing, l.caller, l.qty)
         trade == [buyerId |-> l.caller, sellerId |-> l.listing.sellerId,
                   listingId |-> l.listing.id, itemId |-> l.listing.itemId,
                   qty |-> l.qty, totalPrice |-> totalPrice]
     IN IF InsufficientFunds(gold[l.caller], totalPrice)
          THEN /\ UNCHANGED db
               /\ Finish(p, BuyResult(l, "InsufficientFunds", NoListing))
        ELSE IF ~InInt64(debited[l.listing.sellerId] + totalPrice)
          THEN /\ UNCHANGED db
               /\ Finish(p, BuyResult(l, "Error", NoListing))
          ELSE /\ gold' = IncrementGold(debited, l.listing.sellerId, totalPrice)
               /\ inv' = AddItem(inv, l.caller, l.listing.itemId, l.qty)
               /\ listings' = [listings EXCEPT ![l.listing.id] = updated]
               /\ trades' = Append(trades, trade)
               /\ everSold' = IF updated.status = "sold" THEN everSold \cup {updated.id} ELSE everSold
               /\ UNCHANGED <<runs, attempts, credited>>
               /\ Finish(p, BuyResult(l, "ok", updated))
  /\ UNCHANGED <<clock, fixed>>

\* The collections after the first k writes of the transaction of Buy:
\* SetGold, IncrementGold, AddItem, ReplaceListing
BuyWritten(l, k) ==
  LET totalPrice == TotalPrice(l.qty, l.listing.pricePerUnit)
      debited == SetGold(gold, l.caller, Wrap64(gold[l.caller] - totalPrice))
  IN [Durable EXCEPT
        !.gold = IF k >= 2 THEN IncrementGold(debited, l.listing.sellerId, totalPrice)
                 ELSE IF k >= 1 THEN debited ELSE @,
        !.inv = IF k >= 3 THEN AddItem(@, l.caller, l.listing.itemId, l.qty) ELSE @,
        !.listings = IF k >= 4
                       THEN [@ EXCEPT ![l.listing.id] = BoughtListing(l.listing, l.caller, l.qty)]
                       ELSE @]

\* The transaction of Buy does not commit: it fails after k of its writes
\* (k = 4: at the insert of the trade)
BuyAbort(p) ==
  /\ pc[p] = "buy_tx"
  /\ \E k \in 0..4 :
       /\ k >= 1 => ~InsufficientFunds(gold[loc[p].caller],
                                        TotalPrice(loc[p].qty, loc[p].listing.pricePerUnit))
       /\ Ended(AbortTransaction(Durable, BuyWritten(loc[p], k)))
  /\ Finish(p, BuyResult(loc[p], "Error", NoListing))
  /\ UNCHANGED <<clock, fixed>>

CancelResult(l, outcome, out) ==
  [op |-> "Cancel", caller |-> l.caller, listingId |-> l.listingId, outcome |-> outcome, out |-> out]

CancelChecks_Expiry(sellerId, listingId) ==
  IF listingId \notin 1..Len(listings) THEN "NotFound"
  ELSE IF listings[listingId].sellerId # sellerId THEN "Forbidden"
  ELSE IF listings[listingId].status # "active" THEN "Conflict"
  ELSE IF Expired(listings[listingId], clock) THEN "Conflict"
  ELSE "pass"

\* The checks of Cancel on the listing it loaded
CancelChecks(sellerId, listingId) ==
  IF listingId \notin 1..Len(listings) THEN "NotFound"
  ELSE IF listings[listingId].sellerId # sellerId THEN "Forbidden"
  ELSE IF listings[listingId].status # "active" THEN "Conflict"
  ELSE "pass"

\* Cancel from GetByID to the status check
CancelLoad(p) ==
  /\ pc[p] = "idle"
  /\ \E seller \in env.callers, listingId \in 1..(Len(listings) + 1) :
       LET l == [op |-> "Cancel", caller |-> seller, listingId |-> listingId]
           outcome == CancelChecks(seller, listingId)
       IN IF outcome = "pass"
            THEN Goto(p, "cancel_tx", l @@ [listing |-> listings[listingId]])
            ELSE Finish(p, CancelResult(l, outcome, NoListing))
  /\ UNCHANGED <<db, clock, fixed>>

\* Cancel: the transaction
CancelTx(p) ==
  /\ pc[p] = "cancel_tx"
  /\ LET l == loc[p]
         updated == [l.listing EXCEPT !.status = "cancelled"]
     IN /\ inv' = IF l.listing.qty > 0
                    THEN AddItem(inv, l.caller, l.listing.itemId, l.listing.qty)
                    ELSE inv
        /\ listings' = [listings EXCEPT ![l.listing.id] = updated]
        /\ UNCHANGED <<gold, runs, attempts, credited, trades, everSold>>
        /\ Finish(p, CancelResult(l, "ok", updated))
  /\ UNCHANGED <<clock, fixed>>

\* The transaction of Cancel does not commit: it fails at AddItem (k = 0) or
\* at ReplaceListing (k = 1)
CancelAbort(p) ==
  /\ pc[p] = "cancel_tx"
  /\ \E k \in 0..1 :
       LET l == loc[p]
           written == [Durable EXCEPT
                         !.inv = IF k = 1 /\ l.listing.qty > 0
                                   THEN AddItem(@, l.caller, l.listing.itemId, l.listing.qty)
                                   ELSE @]
       IN Ended(AbortTransaction(Durable, written))
  /\ Finish(p, CancelResult(loc[p], "Error", NoListing))
  /\ UNCHANGED <<clock, fixed>>

\* Time passes (one hour).  s.now() is only ever compared with the expiry of a
\* listing, so the clock is followed while some listing has yet to expire.
Tick ==
  /\ clock < MaxClock
  /\ \E i \in 1..Len(listings) : listings[i].expiresAt # 0 /\ ~Expired(listings[i], clock)
  /\ clock' = clock + 1
  /\ UNCHANGED <<db, pc, loc, last, fixed>>

(***************************************************************************)
(* Specification of the auction                                            *)
(***************************************************************************)
\* Two players with some gold; p1 holds two swords and a relic.
AuctionDatabase ==
  /\ gold = [pl \in Players |-> 3]
  /\ inv = [pl \in Players |-> [it \in Items |-> IF pl = "p1" THEN (IF it = "sword" THEN 2 ELSE 1) ELSE 0]]
  /\ runs = <<>>
  /\ attempts = {}
  /\ credited = [rs \in (1..MaxRuns) \X StepIDs |-> 0]
  /\ listings = <<>>
  /\ trades = <<>>
  /\ everSold = {}
  /\ clock = 0
  /\ nsteps = 1

\* Listings without expiry
InitAuction ==
  /\ AuctionDatabase
  /\ NoRequest
  /\ stepOrder = SeedOrder
  /\ env = [callers |-> Players, sellers |-> {"p1"}, itemIds |-> ItemIDs, qtys |-> 0..3,
            prices |-> {1, 2}, expiries |-> {0}, rewardGold |-> StepGold]

NextAuction ==
  \E p \in Procs :
       \/ CreateListing(p)
       \/ CreateListingAbort(p)
       \/ BuyLoad(p)
       \/ BuyTx(p)
       \/ BuyAbort(p)
       \/ CancelLoad(p)
       \/ CancelTx(p)
       \/ CancelAbort(p)

SpecAuction == InitAuction /\ [][NextAuction]_vars

\* the prices of the listings of InitOverflow, in units of 2^60 gold pieces
LargePrices == {1, 4}

\* Listings at prices of 2^60 and 2^62 gold pieces; every balance is a
\* multiple of 2^60
InitOverflow ==
  /\ AuctionDatabase
  /\ NoRequest
  /\ stepOrder = SeedOrder
  /\ env = [callers |-> Players, sellers |-> {"p1"}, itemIds |-> {"sword"}, qtys |-> 1..2,
            prices |-> LargePrices, expiries |-> {0}, rewardGold |-> StepGold,
            goldUnitBits |-> 60]

SpecOverflow == InitOverflow /\ [][NextAuction]_vars

\* Listings that expire one hour after their creation
InitExpiry ==
  /\ AuctionDatabase
  /\ NoRequest
  /\ stepOrder = SeedOrder
  /\ env = [callers |-> Players, sellers |-> {"p1"}, itemIds |-> {"sword"}, qtys |-> 1..2,
            prices |-> {1}, expiries |-> {1}, rewardGold |-> StepGold]

NextExpiry == Tick \/ NextAuction

SpecExpiry == InitExpiry /\ [][NextExpiry]_vars

\* the listing that p1 created at hour 0 to expire one hour later
ExpiredListing(qty) ==
  [id |-> 1, sellerId |-> "p1", buyerId |-> "", itemId |-> "sword", qty |-> qty,
   pricePerUnit |-> 1, status |-> "active", expiresAt |-> 1]

\* Two hours after p1 listed one or both of its swords for one hour: the
\* listing is still stored as active, and nobody has asked for anything since
InitExpired ==
  /\ \E qty \in 1..2 :
       /\ inv = [pl \in Players |-> [it \in Items |->
                   IF pl = "p1" THEN (IF it = "sword" THEN 2 - qty ELSE 1) ELSE 0]]
       /\ listings = <<ExpiredListing(qty)>>
       /\ last = CreateListingResult("p1", "sword", qty, 1, "ok", 1)
  /\ gold = [pl \in Players |-> 3]
  /\ runs = <<>>
  /\ attempts = {}
  /\ credited = [rs \in (1..MaxRuns) \X StepIDs |-> 0]
  /\ trades = <<>>
  /\ everSold = {}
  /\ clock = 2
  /\ nsteps = 1
  /\ pc = [p \in Procs |-> "idle"]
  /\ loc = [p \in Procs |-> NoLoc]
  /\ stepOrder = SeedOrder
  /\ env = [callers |-> Players, sellers |-> {"p1"}, itemIds |-> {"sword"}, qtys |-> 1..2,
            prices |-> {1}, expiries |-> {1}, rewardGold |-> StepGold]

\* Buy and Cancel requests on the expired listing
NextExpired ==
  \E p \in Procs :
    \/ BuyLoad(p)
    \/ CancelLoad(p)
    \/ CancelTx(p)
    \/ CancelAbort(p)

SpecExpired == InitExpired /\ [][NextExpired]_vars

(***************************************************************************)
(* Specification of the ledgers: run rewards and the auction together      *)
(***************************************************************************)
\* p2 has started a run on the one-step dungeon; p1 holds the items.
InitLedger ==
  /\ gold = [pl \in Players |-> 3]
  /\ inv = [pl \in Players |-> [it \in Items |-> IF pl = "p1" THEN (IF it = "sword" THEN 2 ELSE 1) ELSE 0]]
  /\ runs = <<NewRun(1, "p2", "d1")>>
  /\ attempts = {}
  /\ credited = [rs \in (1..MaxRuns) \X StepIDs |-> 0]
  /\ listings = <<>>
  /\ trades = <<>>
  /\ everSold = {}
  /\ clock = 0
  /\ NoRequest
  /\ stepOrder = SeedOrder
  /\ nsteps = 1
  /\ \E rewardGold \in RewardGolds :
       env = [callers |-> Players, dungeonIds |-> Dungeons, stepIds |-> {1}, keys |-> {"k1"},
              positions |-> {BaseLat}, rewardGold |-> rewardGold, sellers |-> {"p1"},
              itemIds |-> {"sword"}, qtys |-> 1..2, prices |-> {2}, expiries |-> {0}]

NextLedger == NextAttempt \/ NextAuction

SpecLedger == InitLedger /\ [][NextLedger]_vars

(***************************************************************************)
(* Properties of the run progression                                       *)
(***************************************************************************)
\* an Attempt call was answered by its first step, from the run it loaded
AttemptAnsweredAtLoad == pc' = pc /\ last' # last /\ last'.op = "Attempt"

\* process p got past the geofence check in this step
AttemptAdmitted(p) == pc[p] = "idle" /\ pc'[p] = "attempt_lookup"

\* an Attempt call of process p was answered in this step
AttemptAnswered(p) ==
  \/ pc[p] = "idle" /\ AttemptAnsweredAtLoad
  \/ pc[p] \in {"attempt_lookup", "attempt_tx"} /\ pc'[p] = "idle"

\* request a is made by the player of the active run a.runId
OwnActiveRun(a) ==
  /\ a.runId \in 1..Len(runs)
  /\ runs[a.runId].playerId = a.caller
  /\ runs[a.runId].state = "active"

\* request a is made from within the radius of its step
WithinRadius(a) ==
  Distance[a.pos] <= BossStep(a.stepId).radius

RECURSIVE SumRewards(_)
\* the gold of the rewards of a set of steps
SumRewards(S) ==
  IF S = {} THEN 0
  ELSE LET s == CHOOSE x \in S : TRUE IN BossStep(s).rewards.gold + SumRewards(S \ {s})

\* the steps of the runs of player pl whose rewards were credited
CreditedSteps(pl, r) == {s \in StepIDs : credited[<<r, s>>] > 0 /\ r \in 1..Len(runs) /\ runs[r].playerId = pl}

RECURSIVE SumOverRuns(_, _)
SumOverRuns(pl, r) == IF r = 0 THEN 0 ELSE SumRewards(CreditedSteps(pl, r)) + SumOverRuns(pl, r - 1)

\* C1: the rewards of every (run, step) pair are credited at most once: no
\* pair is settled twice, and every player holds exactly the gold of the
\* steps settled in their runs, each counted once.
C1_RewardsAtMostOnce ==
  /\ \A rs \in DOMAIN credited : credited[rs] <= 1
  /\ \A pl \in Players : gold[pl] = SumOverRuns(pl, MaxRuns)

\* a second Attempt on a settled (run, step) pair was answered
C1_Witness ==
  /\ last.op = "Attempt"
  /\ last.runId \in 1..Len(runs)
  /\ credited[<<last.runId, last.stepId>>] = 1
  /\ \/ last.outcome = "AlreadyHandled"
     \/ last.outcome = "ok" /\ last.resp.idempotency

\* the record of the settled attempt that request a repeats, if any
SettledRecords(a) ==
  {r \in attempts : r.runId = a.runId /\ r.stepId = a.stepId /\ r.rewardApplied}

\* C2: an Attempt that repeats a settled attempt with the same run, step
\* and idempotency key (same player, within the radius) is answered with the
\* response of the first call and the replay flag set.
C2_ReplaySameResponse ==
  [][\A p \in Procs :
       AttemptAnswered(p) /\ last'.outcome # "Error" =>
         \A r \in SettledRecords(last') :
           r.idempotencyKey = last'.key /\ r.playerId = last'.caller /\ WithinRadius(last') =>
             /\ last'.outcome = "ok"
             /\ last'.resp = [r.response EXCEPT !.idempotency = TRUE]]_vars

\* C3: an Attempt on a settled (run, step) pair with another idempotency key
\* (same player, within the radius) fails with AlreadyHandled and leaves
\* gold and inventory unchanged.
C3_OtherKeyAlreadyHandled ==
  [][\A p \in Procs :
       AttemptAnswered(p) /\ last'.outcome # "Error" =>
         \A r \in SettledRecords(last') :
           r.idempotencyKey # last'.key /\ r.playerId = last'.caller /\ WithinRadius(last') =>
             /\ last'.outcome = "AlreadyHandled"
             /\ UNCHANGED <<gold, inv>>]_vars

\* the step of request a exists in the dungeon of the caller's active run
\* and its order is not the run's current step
C4_Case(a) ==
  /\ OwnActiveRun(a)
  /\ StepExists(runs[a.runId].dungeonId, a.stepId)
  /\ BossStep(a.stepId).order # runs[a.runId].currentStep

\* C4: an Attempt on the caller's active run at a step whose order differs
\* from currentStep is answered WrongStepOrder whatever its position, and
\* never gets past the order check.
C4_WrongStepOrder ==
  [][/\ AttemptAnsweredAtLoad /\ C4_Case(last') =>
          last'.outcome = "WrongStepOrder" /\ UNCHANGED db
     /\ \A p \in Procs : AttemptAdmitted(p) => ~C4_Case(loc'[p])]_vars

\* WrongStepOrder was answered to a request made within the radius of a
\* step that the run has already passed
C4_Witness ==
  /\ last.op = "Attempt"
  /\ last.outcome = "WrongStepOrder"
  /\ WithinRadius(last)
  /\ BossStep(last.stepId).order < runs[last.runId].currentStep

\* request a is for the current step of the caller's active run, from a
\* position farther than the radius
C5_Case(a) ==
  /\ OwnActiveRun(a)
  /\ StepExists(runs[a.runId].dungeonId, a.stepId)
  /\ BossStep(a.stepId).order = runs[a.runId].currentStep
  /\ ~WithinRadius(a)

\* C5: an Attempt from farther than the radius is answered NotInRange and
\* changes neither the run, the gold, the inventory nor the attempt records;
\* no record of its (run, step) exists afterwards, and it never gets past
\* the geofence check.
C5_NotInRangeNoEffect ==
  [][/\ AttemptAnsweredAtLoad /\ C5_Case(last') =>
          /\ last'.outcome = "NotInRange"
          /\ UNCHANGED db
          /\ AttemptRecordsOf(last'.runId, last'.stepId) = {}
     /\ \A p \in Procs : AttemptAdmitted(p) => ~C5_Case(loc'[p])]_vars

\* NotInRange was answered
C5_Witness == last.op = "Attempt" /\ last.outcome = "NotInRange" /\ ~WithinRadius(last)

\* the steps of run r that have a settled attempt
SettledSteps(r) == {a.stepId : a \in {x \in attempts : x.runId = r /\ x.rewardApplied}}

\* C6: a run of a dungeon of N steps is completed, with an end time and
\* currentStep = N + 1, once each of the N steps has been settled, and is
\* active, at the step after the ones settled, before that.
C6_CompletedAfterLastStep ==
  \A r \in 1..Len(runs) :
    LET N == StepCount(runs[r].dungeonId)
        k == Cardinality(SettledSteps(r))
    IN /\ SettledSteps(r) = 1..k
       /\ k = N => runs[r].state = "completed" /\ runs[r].ended /\ runs[r].currentStep = N + 1
       /\ k < N => runs[r].state = "active" /\ ~runs[r].ended /\ runs[r].currentStep = k + 1

\* a run of a dungeon of more than one step was completed
C6_Witness ==
  \E r \in 1..Len(runs) : runs[r].state = "completed" /\ StepCount(runs[r].dungeonId) > 1

\* no two active runs of one player on one dungeon
AtMostOneActiveRun ==
  \A i, j \in 1..Len(runs) :
    (/\ i # j
     /\ runs[i].state = "active" /\ runs[j].state = "active"
     /\ runs[i].playerId = runs[j].playerId) => runs[i].dungeonId # runs[j].dungeonId

\* C10: there is at most one active run per (player, dungeon), and a Start
\* that reaches CreateRun when an active run of the pair exists fails with
\* Conflict and creates no run.
C10_OneActiveRun ==
  [][/\ AtMostOneActiveRun'
     /\ \A p \in Procs :
          (pc[p] = "start_create" /\ pc'[p] = "idle" /\ HasActiveRun(loc[p].caller, loc[p].dungeonId)) =>
             last'.outcome = "Conflict" /\ runs' = runs]_vars

\* a Start lost the race: it passed HasActiveRun and CreateRun answered Conflict
C10_Witness ==
  last.op = "Start" /\ last.outcome = "Conflict" /\ last.at = "CreateRun"

(***************************************************************************)
(* Properties of the auction                                               *)
(***************************************************************************)
\* process p passes the checks of Buy in this step
BuyAdmitted(p) == pc[p] = "idle" /\ pc'[p] = "buy_tx"

\* a Buy is answered by the checks on the listing it loaded
BuyAnsweredAtLoad == pc' = pc /\ last' # last /\ last'.op = "Buy"

\* the transaction of the Buy of process p is answered in this step
BuyAnsweredAtTx(p) == pc[p] = "buy_tx" /\ pc'[p] = "idle"

\* the Buy of process p succeeds in this step
BuyCommitted(p) == BuyAnsweredAtTx(p) /\ last'.outcome = "ok"

\* C7: a successful Buy of qty units takes total = qty * pricePerUnit from the
\* buyer's balance, adds total to the seller's balance and appends exactly one
\* trade receipt (buyer, seller, listing, item, qty, total).
C7_BuyTransfersTotal ==
  [][\A p \in Procs :
       BuyCommitted(p) =>
         LET buyer == loc[p].caller
             listing == listings[loc[p].listingId]
             total == loc[p].qty * listing.pricePerUnit
         IN /\ gold'[buyer] = gold[buyer] - total
            /\ gold'[listing.sellerId] = gold[listing.sellerId] + total
            /\ trades' = Append(trades, [buyerId |-> buyer, sellerId |-> listing.sellerId,
                                         listingId |-> listing.id, itemId |-> listing.itemId,
                                         qty |-> loc[p].qty, totalPrice |-> total])]_vars

\* a Buy of one unit at two gold succeeded
C7_Witness ==
  /\ last.op = "Buy" /\ last.outcome = "ok" /\ last.qty = 1
  /\ trades # <<>> /\ trades[Len(trades)].totalPrice = 2
  /\ gold[last.caller] = 1

\* the listing a Buy reads refuses the request
BuyRefused(buyer, listingId, qty) ==
  /\ qty >= 1
  /\ listingId \in 1..Len(listings)
  /\ \/ qty > listings[listingId].qty
     \/ listings[listingId].sellerId = buyer
     \/ listings[listingId].status # "active"

\* C8: a Buy fails with Conflict when the listing has fewer units left than
\* requested, belongs to the buyer or is not active, be it when the Buy reads
\* the listing or when its transaction takes effect, and with
\* InsufficientFunds when the buyer holds less than the total; every such
\* failure leaves balances, inventories, listings and trades unchanged.
C8_BuyFailuresChangeNothing ==
  [][/\ \A p \in Procs :
          BuyAdmitted(p) => ~BuyRefused(loc'[p].caller, loc'[p].listingId, loc'[p].qty)
     /\ (BuyAnsweredAtLoad /\ BuyRefused(last'.caller, last'.listingId, last'.qty)) =>
          last'.outcome = "Conflict"
     /\ \A p \in Procs :
          (BuyAnsweredAtTx(p) /\ BuyRefused(loc[p].caller, loc[p].listingId, loc[p].qty)) =>
             last'.outcome \in {"Conflict", "Error"}
     /\ \A p \in Procs :
          (/\ BuyAnsweredAtTx(p)
           /\ gold[loc[p].caller] < loc[p].qty * listings[loc[p].listingId].pricePerUnit) =>
             last'.outcome \in {"InsufficientFunds", "Error"}
     /\ (last' # last /\ last'.op = "Buy" /\ last'.outcome \in {"Conflict", "InsufficientFunds"}) =>
          UNCHANGED <<gold, inv, listings, trades>>]_vars

\* C9: a Buy of fewer units than the listing has left keeps it active with the
\* quantity reduced by the purchase; a Buy of all the units left makes it sold,
\* records the buyer and sets the quantity to 0; every Buy that reads a listing
\* after it was sold fails with Conflict.
C9_SoldListingRefusesBuy ==
  [][/\ \A p \in Procs :
          BuyCommitted(p) =>
            LET l == loc[p]
                after == listings'[l.listingId]
            IN IF l.qty < l.listing.qty
                 THEN after.status = "active" /\ after.qty = l.listing.qty - l.qty
                 ELSE after.status = "sold" /\ after.buyerId = l.caller /\ after.qty = 0
     /\ \A p \in Procs :
          BuyAdmitted(p) => loc'[p].listingId \notin everSold
     /\ (BuyAnsweredAtLoad /\ last'.qty >= 1 /\ last'.listingId \in everSold) =>
          last'.outcome = "Conflict"]_vars

\* C11: no player's gold balance and no inventory quantity is ever negative,
\* whatever the interleaving of Attempt, CreateListing, Buy and Cancel.
C11_LedgersNeverNegative ==
  \A pl \in Players :
    /\ gold[pl] >= 0
    /\ \A it \in Items : inv[pl][it] >= 0

\* the transaction of the Cancel of process p commits in this step
CancelCommitted(p) == pc[p] = "cancel_tx" /\ pc'[p] = "idle" /\ last'.outcome = "ok"

\* a CreateListing inserts its listing in this step
ListingCreated == Len(listings') = Len(listings) + 1

\* C12: creating a listing takes exactly qty of the item from the seller's
\* inventory; a Buy of the listing leaves the seller's inventory of the item
\* alone; a successful Cancel gives the seller exactly the quantity the stored
\* listing has left at that moment, and nothing else gives the seller of a
\* listing its item back.
C12_EscrowOfTheSeller ==
  [][/\ ListingCreated =>
          LET new == listings'[Len(listings')]
          IN inv'[new.sellerId][new.itemId] = inv[new.sellerId][new.itemId] - new.qty
     /\ \A p \in Procs :
          BuyCommitted(p) =>
            LET stored == listings[loc[p].listingId]
            IN inv'[stored.sellerId][stored.itemId] = inv[stored.sellerId][stored.itemId]
     /\ \A p \in Procs :
          CancelCommitted(p) =>
            LET stored == listings[loc[p].listingId]
            IN inv'[stored.sellerId][stored.itemId] = inv[stored.sellerId][stored.itemId] + stored.qty
     /\ \A i \in 1..Len(listings) :
          inv'[listings[i].sellerId][listings[i].itemId] > inv[listings[i].sellerId][listings[i].itemId] =>
            \E p \in Procs : CancelCommitted(p) /\ loc[p].caller = listings[i].sellerId]_vars

\* C13: the stored status of a listing that is sold or cancelled never changes
\* again, whatever the interleaving of Buy and Cancel.
C13_StatusOneWay ==
  [][\A i \in 1..Len(listings) :
       listings[i].status \in {"sold", "cancelled"} => listings'[i].status = listings[i].status]_vars

\* C14: every listing whose status is active has a quantity above 0.
C14_ActiveListingHasQuantity ==
  \A i \in 1..Len(listings) : listings[i].status = "active" => listings[i].qty > 0

\* a Buy took part of a listing, which is still active
C14_Witness ==
  \E i \in 1..Len(listings), t \in 1..Len(trades) :
    /\ listings[i].status = "active"
    /\ trades[t].listingId = i
    /\ last.op = "Buy" /\ last.outcome = "ok" /\ last.listingId = i

\* a Cancel is answered by the checks on the listing it loaded
CancelAnsweredAtLoad == pc' = pc /\ last' # last /\ last'.op = "Cancel"

\* process p passes the checks of Cancel in this step
CancelAdmitted(p) == pc[p] = "idle" /\ pc'[p] = "cancel_tx"

\* the transaction of the Cancel of process p is answered in this step
CancelAnsweredAtTx(p) == pc[p] = "cancel_tx" /\ pc'[p] = "idle"

\* C15: a Cancel by someone other than the seller fails with Forbidden and a
\* Cancel of a listing that is not active fails with Conflict, both without
\* any change; any other Cancel either gives the seller the quantity the
\* listing has left and makes the listing cancelled, or does neither.
C15_CancelAllOrNothing ==
  [][/\ (CancelAnsweredAtLoad /\ last'.listingId \in 1..Len(listings)) =>
          /\ listings[last'.listingId].sellerId # last'.caller => last'.outcome = "Forbidden"
          /\ (/\ listings[last'.listingId].sellerId = last'.caller
              /\ listings[last'.listingId].status # "active") => last'.outcome = "Conflict"
          /\ UNCHANGED <<gold, inv, listings, trades>>
     /\ \A p \in Procs :
          CancelAdmitted(p) =>
            /\ listings[loc'[p].listingId].sellerId = loc'[p].caller
            /\ listings[loc'[p].listingId].status = "active"
     /\ \A p \in Procs :
          CancelAnsweredAtTx(p) =>
            LET stored == listings[loc[p].listingId]
            IN \/ /\ last'.outcome = "ok"
                  /\ inv' = [inv EXCEPT ![stored.sellerId][stored.itemId] = @ + stored.qty]
                  /\ listings' = [listings EXCEPT ![stored.id] = [stored EXCEPT !.status = "cancelled"]]
                  /\ UNCHANGED <<gold, trades>>
               \/ /\ last'.outcome # "ok"
                  /\ UNCHANGED <<gold, inv, listings, trades>>]_vars

\* a CreateListing is answered in this step
CreateListingAnswered == pc' = pc /\ last' # last /\ last'.op = "CreateListing"

\* C16: CreateListing either takes qty of the item from the seller's inventory
\* and inserts one active listing of that quantity, or changes neither the
\* inventory nor the listings; it fails with Conflict when the seller holds
\* fewer than qty units, and creates nothing when the item is not tradable.
C16_CreateListingAllOrNothing ==
  [][/\ ListingCreated => CreateListingAnswered /\ last'.outcome = "ok"
     /\ CreateListingAnswered =>
          LET r == last'
          IN /\ \/ /\ r.outcome = "ok"
                   /\ listings' = Append(listings,
                                         [listings'[Len(listings')] EXCEPT
                                            !.id = Len(listings) + 1, !.sellerId = r.caller,
                                            !.itemId = r.itemId, !.qty = r.qty,
                                            !.status = "active", !.buyerId = ""])
                   /\ inv' = [inv EXCEPT ![r.caller][r.itemId] = @ - r.qty]
                \/ /\ r.outcome # "ok"
                   /\ listings' = listings
                   /\ inv' = inv
             /\ (/\ r.qty >= 1 /\ r.pricePerUnit >= 1
                 /\ r.itemId \in Items /\ Tradable(r.itemId)
                 /\ inv[r.caller][r.itemId] < r.qty) => r.outcome \in {"Conflict", "Error"}
             /\ (r.itemId \in Items /\ ~Tradable(r.itemId)) => r.outcome # "ok"
             /\ UNCHANGED <<gold, trades>>]_vars

\* the seller asked to list more swords than they hold
C16_Witness ==
  /\ last.op = "CreateListing" /\ last.outcome = "Conflict"
  /\ Tradable(last.itemId) /\ inv[last.caller][last.itemId] < last.qty
  /\ listings = <<>>

\* a Start is answered before it builds its run
StartAnsweredAtCheck == pc' = pc /\ last' # last /\ last'.op = "Start"

\* process p passes the checks of Start in this step
StartAdmitted(p) == pc[p] = "idle" /\ pc'[p] = "start_create"

\* the CreateRun of the Start of process p is answered in this step
StartAnsweredAtCreate(p) == pc[p] = "start_create" /\ pc'[p] = "idle"

\* C17: a Start for an existing player on a published dungeon on which the
\* player has no active run appends a run with currentStep 1, state active
\* and no killed steps; a Start on a missing dungeon or by a missing player
\* fails with NotFound and a Start on an unpublished dungeon with Validation,
\* creating no run.
C17_StartCreatesRun ==
  [][/\ StartAnsweredAtCheck =>
          /\ runs' = runs
          /\ ~DungeonExists(last'.dungeonId) => last'.outcome = "NotFound"
          /\ (DungeonExists(last'.dungeonId) /\ DungeonStatus(last'.dungeonId) # "published") =>
               last'.outcome = "Validation"
          /\ (/\ DungeonExists(last'.dungeonId)
              /\ DungeonStatus(last'.dungeonId) = "published"
              /\ last'.caller \notin Players) => last'.outcome = "NotFound"
     /\ \A p \in Procs :
          StartAdmitted(p) =>
            /\ DungeonExists(loc'[p].dungeonId)
            /\ DungeonStatus(loc'[p].dungeonId) = "published"
            /\ loc'[p].caller \in Players
            /\ ~HasActiveRun(loc'[p].caller, loc'[p].dungeonId)
     /\ \A p \in Procs :
          (StartAnsweredAtCreate(p) /\ ~HasActiveRun(loc[p].caller, loc[p].dungeonId)) =>
            /\ last'.outcome = "ok"
            /\ runs' = Append(runs, [id |-> Len(runs) + 1, dungeonId |-> loc[p].dungeonId,
                                     playerId |-> loc[p].caller, state |-> "active",
                                     currentStep |-> 1, killedSteps |-> <<>>, ended |-> FALSE])
     /\ runs' # runs => \E p \in Procs : StartAnsweredAtCreate(p) /\ last'.outcome = "ok"]_vars

\* a Start has created the second run of the database
C17_Witness ==
  /\ last.op = "Start" /\ last.outcome = "ok" /\ last.runId = 2
  /\ Len(runs) = 2 /\ runs[2].currentStep = 1 /\ runs[2].state = "active"

\* C18: an Attempt by someone other than the run's player fails with
\* Forbidden and an Attempt on a run that is not active fails with Conflict;
\* neither changes the run, the wallet, the inventory or the attempt records,
\* and nothing settles a step of a run that is no longer active.
C18_ForeignOrInactiveRun ==
  [][/\ (AttemptAnsweredAtLoad /\ last'.runId \in 1..Len(runs)) =>
          /\ runs[last'.runId].playerId # last'.caller =>
               last'.outcome = "Forbidden" /\ UNCHANGED <<runs, gold, inv, attempts>>
          /\ (/\ runs[last'.runId].playerId = last'.caller
              /\ runs[last'.runId].state # "active") =>
               last'.outcome = "Conflict" /\ UNCHANGED <<runs, gold, inv, attempts>>
     /\ \A p \in Procs :
          AttemptAdmitted(p) =>
            /\ runs[loc'[p].runId].playerId = loc'[p].caller
            /\ runs[loc'[p].runId].state = "active"
     /\ \A r \in 1..Len(runs) :
          runs[r].state # "active" =>
            /\ runs'[r] = runs[r]
            /\ {a \in attempts' : a.runId = r} = {a \in attempts : a.runId = r}
            /\ \A st \in StepIDs : credited'[<<r, st>>] = credited[<<r, st>>]]_vars

\* the player asked to settle a step of their completed run
C18_Witness ==
  /\ last.op = "Attempt" /\ last.outcome = "Conflict"
  /\ last.runId \in 1..Len(runs)
  /\ runs[last.runId].playerId = last.caller
  /\ runs[last.runId].state = "completed"

\* the transaction of process p ends in this step with an error
TransactionFailed(p) ==
  /\ pc[p] \in {"attempt_tx", "buy_tx", "cancel_tx"}
  /\ pc'[p] = "idle"
  /\ last'.outcome \notin {"ok"}

\* C19: when the transaction of Attempt, Buy, CreateListing or Cancel fails,
\* gold, inventories, runs, attempt records, listings and trades are after the
\* failed operation what they were before it.
C19_FailedTransactionRollsBack ==
  [][((\E p \in Procs : TransactionFailed(p)) \/ (CreateListingAnswered /\ last'.outcome # "ok")) =>
       UNCHANGED <<gold, inv, runs, attempts, listings, trades>>]_vars

\* the transaction of a Buy that could pay failed
C19_Witness ==
  /\ last.op = "Buy" /\ last.outcome = "Error"
  /\ last.listingId \in 1..Len(listings)
  /\ gold[last.caller] >= last.qty * listings[last.listingId].pricePerUnit

\* the length in millimetres of the arc of a meridian of the sphere of radius
\* earthRadiusMeters between two latitudes in microdegrees (pi as 355/113)
MeridianArc(lat1, lat2) ==
  ((((earthRadiusMeters \div 1000) * Abs(lat2 - lat1)) \div 180) * 355) \div 113

\* C20: HaversineMeters is 0 for identical points, the same in both
\* directions, between 3000 m and 3400 m from the Eiffel Tower to the Louvre,
\* and along a meridian within one percent of the arc of the sphere of
\* radius 6,371,000 m.
C20_HaversineMeters ==
  last.op = "HaversineMeters" =>
    /\ last.from = last.to => last.distance = 0
    /\ last.distance = HaversineMeters(last.to.lat, last.to.lon, last.from.lat, last.from.lon)
    /\ (last.from = Eiffel /\ last.to = Louvre) =>
         (last.distance >= 3000 * 1000 /\ last.distance <= 3400 * 1000)
    /\ last.from.lon = last.to.lon =>
         Abs(last.distance - MeridianArc(last.from.lat, last.to.lat)) * 100
           <= MeridianArc(last.from.lat, last.to.lat)

\* the distance from the Eiffel Tower to the Louvre was measured
C20_Witness ==
  /\ last.op = "HaversineMeters"
  /\ last.from = Eiffel /\ last.to = Louvre
  /\ last.distance > 0

\* request a is made by the player of run a.runId at a step of its dungeon
\* that a successful attempt has settled and the run has passed
C21_Case(a) ==
  /\ a.runId \in 1..Len(runs)
  /\ runs[a.runId].playerId = a.caller
  /\ StepExists(runs[a.runId].dungeonId, a.stepId)
  /\ SettledRecords(a) # {}
  /\ BossStep(a.stepId).order < runs[a.runId].currentStep

\* C21 as stated: an Attempt at a step that the run has passed is rejected
\* as WrongStepOrder.
C21_PassedStepWrongStepOrder ==
  [][AttemptAnsweredAtLoad /\ C21_Case(last') => last'.outcome = "WrongStepOrder"]_vars

\* C21, amended: an Attempt that loads the run after a successful attempt
\* has advanced it past step N is rejected at step N without any change: as
\* WrongStepOrder while the run is active, as Conflict once the run is
\* completed (N was the last step); it never gets past the checks.
C21_PassedStepRejected ==
  [][/\ AttemptAnsweredAtLoad /\ C21_Case(last') =>
          /\ last'.outcome = IF runs[last'.runId].state = "active" THEN "WrongStepOrder" ELSE "Conflict"
          /\ UNCHANGED db
     /\ \A p \in Procs : AttemptAdmitted(p) => ~C21_Case(loc'[p])]_vars

\* the last step of a run was attempted again and Conflict was answered
C21_Witness ==
  /\ last.op = "Attempt"
  /\ C21_Case(last)
  /\ last.outcome = "Conflict"
  /\ runs[last.runId].state = "completed"

RECURSIVE RewardQty(_, _)
\* the quantity of item itemId among the reward items
RewardQty(items, itemId) ==
  IF items = <<>> THEN 0
  ELSE (IF Head(items).itemId = itemId THEN Head(items).qty ELSE 0) + RewardQty(Tail(items), itemId)

\* the transaction of the Attempt of process p commits in this step: a
\* successful first attempt (replay flag false)
AttemptSettled(p) ==
  /\ pc[p] = "attempt_tx"
  /\ pc'[p] = "idle"
  /\ last'.outcome = "ok"
  /\ ~last'.resp.idempotency

\* C22: a successful first Attempt on a step adds exactly the gold of the
\* step to the player's gold, exactly the reward quantity of each item to
\* the player's inventory, appends to the killed steps of the stored run
\* exactly one entry, for that step and with the id of the attempt record,
\* and advances the stored currentStep by exactly one; nobody else's gold or
\* inventory changes.
C22_FirstAttemptSettles ==
  [][\A p \in Procs :
       AttemptSettled(p) =>
         LET a == last'
             rewards == BossStep(a.stepId).rewards
         IN /\ gold' = [gold EXCEPT ![a.caller] = @ + rewards.gold]
            /\ inv' = [inv EXCEPT ![a.caller] = [it \in Items |-> @[it] + RewardQty(rewards.items, it)]]
            /\ \E record \in attempts' :
                 /\ record.runId = a.runId /\ record.stepId = a.stepId
                 /\ runs'[a.runId].killedSteps =
                      Append(runs[a.runId].killedSteps, [bossStepId |-> a.stepId, attemptId |-> record.id])
            /\ runs'[a.runId].currentStep = runs[a.runId].currentStep + 1]_vars

\* a first Attempt on a step that rewards gold and an item was settled
C22_Witness ==
  /\ last.op = "Attempt" /\ last.outcome = "ok" /\ ~last.resp.idempotency
  /\ last.stepId = 1
  /\ gold[last.caller] = BossStep(1).rewards.gold
  /\ inv[last.caller]["sword"] = 1
  /\ Len(runs[last.runId].killedSteps) = 1

\* the run that the Attempt of process p loaded is no longer the stored run
StaleRun(p) ==
  /\ pc[p] = "attempt_tx"
  /\ loc[p].run # runs[loc[p].runId]

\* C26: the transaction of an Attempt that computed its run update from an
\* older read of the run never replaces the stored run, and when it reaches
\* the run replace (its record insert succeeded) it is answered with an
\* error.
C26_StaleRunWriteRejected ==
  [][\A p \in Procs :
       StaleRun(p) /\ pc'[p] = "idle" =>
         /\ runs' = runs
         /\ ~AttemptIndexViolated(loc[p].runId, loc[p].stepId) => last'.outcome = "Error"]_vars

RECURSIVE SumGold(_, _)
\* the gold of the players of S together
SumGold(g, S) ==
  IF S = {} THEN 0
  ELSE LET pl == CHOOSE x \in S : TRUE IN g[pl] + SumGold(g, S \ {pl})

\* C23: CreateListing, Buy and Cancel leave the sum of all players' gold
\* unchanged in every step, and gold moves only in the step in which a Buy
\* commits: no state shows the buyer debited and the seller not credited, or
\* the reverse.
C23_GoldTransferAtomic ==
  [][/\ SumGold(gold', Players) = SumGold(gold, Players)
     /\ gold' # gold => \E p \in Procs : BuyCommitted(p)]_vars

\* a Buy has moved gold from the buyer to the seller
C23_Witness ==
  /\ last.op = "Buy" /\ last.outcome = "ok"
  /\ Len(trades) >= 1
  /\ \E buyer, seller \in Players :
       /\ trades[Len(trades)].buyerId = buyer /\ trades[Len(trades)].sellerId = seller
       /\ gold[buyer] < 3 /\ gold[seller] > 3

\* the listing that the Buy of process p loaded has since been replaced by a
\* write that was not a Cancel: another Buy has committed on it
OutrunByBuy(p) ==
  /\ pc[p] = "buy_tx"
  /\ listings[loc[p].listing.id] # loc[p].listing
  /\ listings[loc[p].listing.id].status # "cancelled"

\* C24: of two Buy calls that read the same listing before either committed,
\* the one whose transaction runs second fails with an error and changes no
\* gold, inventory, listing or trade.
C24_RacingBuyLoses ==
  [][\A p \in Procs :
       OutrunByBuy(p) /\ pc'[p] = "idle" =>
         /\ last'.outcome # "ok"
         /\ UNCHANGED <<gold, inv, listings, trades>>]_vars

\* the Attempt of process p has passed the checks and is answered in this
\* step, at the record lookup or by its transaction
AttemptRaceEnds(p) ==
  /\ pc[p] \in {"attempt_lookup", "attempt_tx"}
  /\ pc'[p] = "idle"

\* C25: of the Attempt calls for one (run, step) that have all passed the
\* checks, the first whose transaction runs to its end inserts the record and
\* settles the step; every call that is answered when a record of the
\* (run, step) exists leaves gold, inventories, runs and attempt records as
\* they are; so a (run, step) has at most one record and is settled at most
\* once.
C25_OneAttemptWins ==
  [][/\ \A p \in Procs :
          AttemptRaceEnds(p) =>
            IF AttemptIndexViolated(loc[p].runId, loc[p].stepId)
              THEN UNCHANGED db
              ELSE last'.outcome # "Error" =>
                     /\ AttemptSettled(p)
                     /\ credited' = [credited EXCEPT ![<<loc[p].runId, loc[p].stepId>>] = 1]
                     /\ Cardinality(AttemptRecordsOf(loc[p].runId, loc[p].stepId)) = 0
     /\ \A a, b \in attempts' : a.runId = b.runId /\ a.stepId = b.stepId => a = b]_vars

\* two calls for one (run, step) passed the checks; one has settled the step
\* and the other, sent with another key, was answered AlreadyHandled
C25_Witness ==
  /\ last.op = "Attempt" /\ last.outcome = "AlreadyHandled"
  /\ \E r \in attempts :
       /\ r.runId = last.runId /\ r.stepId = last.stepId
       /\ r.rewardApplied /\ r.idempotencyKey # last.key
  /\ credited[<<last.runId, last.stepId>>] = 1
  /\ gold[last.caller] = BossStep(last.stepId).rewards.gold

\* C27: in every state of the database, also after an Attempt has failed at
\* any point of its transaction, a (run, step) whose rewards were applied
\* has an attempt record, and a player who holds gold or items has a record
\* of an attempt.
C27_RewardsImplyRecord ==
  /\ \A rs \in DOMAIN credited : credited[rs] > 0 => AttemptRecordsOf(rs[1], rs[2]) # {}
  /\ \A pl \in Players :
       (gold[pl] # 0 \/ \E it \in Items : inv[pl][it] # 0) => \E r \in attempts : r.playerId = pl

\* the transaction of an Attempt failed after an earlier step of the run had
\* been settled: the settled step has its record, the failed one has none
C27_Witness ==
  /\ last.op = "Attempt" /\ last.outcome = "Error"
  /\ AttemptRecordsOf(last.runId, last.stepId) = {}
  /\ credited[<<last.runId, last.stepId>>] = 0
  /\ \E s \in StepIDs : credited[<<last.runId, s>>] = 1 /\ AttemptRecordsOf(last.runId, s) # {}

\* the record of (run, step) that the lookup of process p finds in pending
\* form under the key of p's request
PendingFound(p) ==
  /\ pc[p] = "attempt_lookup"
  /\ pc'[p] # "attempt_lookup"
  /\ \E record \in AttemptRecordsOf(loc[p].runId, loc[p].stepId) :
       record.idempotencyKey = loc[p].key /\ ~record.rewardApplied

\* C28: an Attempt whose lookup finds a record of its (run, step) with its own
\* key and reward-applied = false is answered AlreadyHandled there: it does not
\* go on to the settlement, and no balance, inventory, run or attempt record
\* changes.
C28_PendingRecordAlreadyHandled ==
  [][\A p \in Procs :
       PendingFound(p) =>
         /\ pc'[p] = "idle"
         /\ last'.op = "Attempt" /\ last'.outcome = "AlreadyHandled"
         /\ UNCHANGED db]_vars

\* the run stands at the step of the pending record, and a request with the
\* record's key has been answered AlreadyHandled by the lookup
C28_Witness ==
  /\ last.op = "Attempt" /\ last.outcome = "AlreadyHandled"
  /\ "at" \notin DOMAIN last
  /\ last.key = PendingKey /\ last.stepId = MaxSteps
  /\ runs[1].currentStep = MaxSteps /\ runs[1].state = "active"
  /\ PendingRecord(1, MaxSteps, "p1", PendingKey) \in attempts
  /\ credited[<<1, MaxSteps>>] = 0

\* the insert of the pending record of process p hits the unique index
\* {runId, stepId} in this step, and the record is read back
DuplicateInsert(p) ==
  /\ pc[p] = "attempt_tx"
  /\ pc'[p] = "idle"
  /\ AttemptIndexViolated(loc[p].runId, loc[p].stepId)
  /\ last'.outcome # "Error"

ExpiredActive(id) ==
  /\ id \in 1..Len(listings)
  /\ listings[id].status = "active"
  /\ listings[id].expiresAt # 0
  /\ listings[id].expiresAt < clock

\* C30: a Buy that loads an active listing whose expiry timestamp is in the
\* past is answered Conflict and never reaches its transaction; no balance,
\* inventory, listing or trade changes, so the stored status stays active, and
\* no step ever stores another status than active, sold or cancelled.
C30_BuyExpiredListingConflict ==
  [][/\ BuyAnsweredAtLoad /\ ExpiredActive(last'.listingId) =>
          /\ last'.outcome = "Conflict"
          /\ UNCHANGED db
          /\ listings'[last'.listingId].status = "active"
     /\ \A p \in Procs :
          BuyAdmitted(p) => ~ExpiredActive(loc'[p].listingId)
     /\ \A i \in 1..Len(listings') : listings'[i].status \in {"active", "sold", "cancelled"}]_vars

\* a buyer other than the seller asked for no more than the listing holds, was
\* answered Conflict, and the listing is active with its expiry in the past
C30_Witness ==
  /\ last.op = "Buy" /\ last.outcome = "Conflict"
  /\ ExpiredActive(last.listingId)
  /\ last.caller # listings[last.listingId].sellerId
  /\ last.qty <= listings[last.listingId].qty
  /\ trades = <<>>

(***************************************************************************)
(* Properties of the geofence                                              *)
(***************************************************************************)
\* request a is for the current step of the caller's active run
CurrentStepOfOwnRun(a) ==
  /\ OwnActiveRun(a)
  /\ StepExists(runs[a.runId].dungeonId, a.stepId)
  /\ BossStep(a.stepId).order = runs[a.runId].currentStep

\* C31: the geofence admits the boundary: NotInRange is answered only when the
\* distance is strictly greater than the radius of the step, and an Attempt
\* on the current step of the caller's active run whose distance is at most
\* the radius, the radius itself included, gets past the geofence check.
C31_BoundaryAdmitted ==
  [][/\ AttemptAnsweredAtLoad /\ last'.outcome = "NotInRange" =>
          Distance[last'.pos] > BossStep(last'.stepId).radius
     /\ AttemptAnsweredAtLoad /\ CurrentStepOfOwnRun(last') =>
          /\ last'.outcome = "NotInRange"
          /\ Distance[last'.pos] > BossStep(last'.stepId).radius
     /\ \A p \in Procs :
          AttemptAdmitted(p) => Distance[loc'[p].pos] <= BossStep(loc'[p].stepId).radius]_vars

\* an Attempt made from exactly the radius of its step was settled
C31_Witness ==
  /\ last.op = "Attempt" /\ last.outcome = "ok"
  /\ last.pos = EdgePosition
  /\ Distance[last.pos] = BossStep(last.stepId).radius
  /\ last.resp.distanceM = BossStep(last.stepId).radius
  /\ ~last.resp.idempotency
  /\ credited[<<last.runId, last.stepId>>] = 1

(***************************************************************************)
(* Properties of the attempt records                                       *)
(***************************************************************************)
\* C32: no attempt record in pending form is ever visible outside the
\* transaction that created it: every record of the attempts collection has
\* reward-applied = true and carries the stored response of its settlement.
C32_NoPendingRecordVisible ==
  \A record \in attempts :
    /\ record.rewardApplied
    /\ record.response # NoResp
    /\ record.response.runId = record.runId
    /\ record.response.stepId = record.stepId

\* a settlement has committed its record, and the transaction of another
\* Attempt has failed since
C32_Witness ==
  /\ \E record \in attempts : record.rewardApplied /\ record.response # NoResp
  /\ last.op = "Attempt" /\ last.outcome = "Error"

(***************************************************************************)
(* Properties of the progression record of a run                           *)
(***************************************************************************)
\* the attempt records of run r
RecordsOfRun(r) == {record \in attempts : record.runId = r}

\* C33: in every run the number of killedSteps entries is currentStep - 1 and
\* is the number of attempt records of the run, and the i-th entry is the
\* step of order i.
C33_KilledStepsMatchProgress ==
  \A r \in 1..Len(runs) :
    LET n == Len(runs[r].killedSteps)
    IN /\ n = runs[r].currentStep - 1
       /\ n = Cardinality(RecordsOfRun(r))
       /\ \A i \in 1..n : BossStep(runs[r].killedSteps[i].bossStepId).order = i

\* the same on the counts alone
C33_Counts ==
  \A r \in 1..Len(runs) :
    /\ Len(runs[r].killedSteps) = runs[r].currentStep - 1
    /\ Len(runs[r].killedSteps) = Cardinality(RecordsOfRun(r))

(***************************************************************************)
(* Properties of the quantities of a listing                               *)
(***************************************************************************)
RECURSIVE TradedQty(_, _)
\* the sum of the quantities of the trade receipts ts of listing id
TradedQty(ts, id) ==
  IF ts = <<>> THEN 0
  ELSE (IF Head(ts).listingId = id THEN Head(ts).qty ELSE 0) + TradedQty(Tail(ts), id)

\* C34: for every listing that is not cancelled, the quantity left plus the
\* quantities of its trade receipts is the quantity that was listed: a new
\* listing has no receipt, and no step changes that sum.
C34_ListedQuantityConserved ==
  [][/\ \A i \in 1..Len(listings') :
          i > Len(listings) => TradedQty(trades', i) = 0
     /\ \A i \in 1..Len(listings) :
          listings'[i].status # "cancelled" =>
            listings'[i].qty + TradedQty(trades', i) = listings[i].qty + TradedQty(trades, i)]_vars

(***************************************************************************)
(* Properties of a Buy and a Cancel on one listing                         *)
(***************************************************************************)
RECURSIVE HeldQty(_, _, _)
\* the units of item it in the inventories iv of the players of S
HeldQty(iv, it, S) ==
  IF S = {} THEN 0
  ELSE LET pl == CHOOSE x \in S : TRUE IN iv[pl][it] + HeldQty(iv, it, S \ {pl})

RECURSIVE EscrowedQty(_, _)
\* the units of item it in the active listings of ls
EscrowedQty(ls, it) ==
  IF ls = <<>> THEN 0
  ELSE (IF Head(ls).status = "active" /\ Head(ls).itemId = it THEN Head(ls).qty ELSE 0)
       + EscrowedQty(Tail(ls), it)

\* the units of item it in all inventories and active listings
ItemTotal(iv, ls, it) == HeldQty(iv, it, Players) + EscrowedQty(ls, it)

\* the transaction of the Buy of process p ends in this step, a Cancel having
\* committed on the listing since the Buy read it
BuyOutrunByCancel(p) ==
  /\ pc[p] = "buy_tx" /\ pc'[p] = "idle"
  /\ listings[loc[p].listing.id].status = "cancelled"

\* the transaction of the Cancel of process p ends in this step, a Buy having
\* committed on the listing since the Cancel read it
CancelOutrunByBuy(p) ==
  /\ pc[p] = "cancel_tx" /\ pc'[p] = "idle"
  /\ listings[loc[p].listing.id] # loc[p].listing
  /\ listings[loc[p].listing.id].status # "cancelled"

\* C35: of a Buy and a Cancel that read the same active listing before either
\* committed, the one whose transaction runs second does not take effect, and
\* the units of the item in all inventories and active listings do not grow.
C35_BuyCancelRace ==
  [][\A p \in Procs :
       BuyOutrunByCancel(p) \/ CancelOutrunByBuy(p) =>
         /\ last'.outcome # "ok"
         /\ \A it \in Items : ItemTotal(inv', listings', it) <= ItemTotal(inv, listings, it)]_vars

(***************************************************************************)
(* Properties of the order of the checks of Attempt                        *)
(***************************************************************************)
\* the checks that request a fails, numbered in the order of the claim:
\* 1 run exists, 2 ownership, 3 run active, 4 step exists in the dungeon of
\* the run, 5 step order, 6 geofence
FailedChecks(a) ==
  IF a.runId \notin 1..Len(runs) THEN {1}
  ELSE LET run == runs[a.runId]
       IN (IF run.playerId # a.caller THEN {2} ELSE {})
          \cup (IF run.state # "active" THEN {3} ELSE {})
          \cup (IF ~StepExists(run.dungeonId, a.stepId) THEN {4}
                ELSE (IF BossStep(a.stepId).order # run.currentStep THEN {5} ELSE {})
                     \cup (IF Distance[a.pos] > BossStep(a.stepId).radius THEN {6} ELSE {}))

\* the error of each check
CheckError(k) ==
  CASE k = 1 -> "NotFound"
    [] k = 2 -> "Forbidden"
    [] k = 3 -> "Conflict"
    [] k = 4 -> "NotFound"
    [] k = 5 -> "WrongStepOrder"
    [] k = 6 -> "NotInRange"

\* the first of a non-empty set of checks
FirstCheck(S) == CHOOSE k \in S : \A j \in S : k <= j

\* C36: an Attempt that fails some of its checks is answered with the error of
\* the first one in the order run exists, ownership, run active, step exists,
\* step order, geofence, without any change; only an Attempt that fails none
\* goes on to the lookup of the attempt record, and AlreadyHandled or a replay
\* is answered from the lookup on only.
C36_ChecksInOrder ==
  [][/\ AttemptAnsweredAtLoad =>
          /\ FailedChecks(last') # {}
          /\ last'.outcome = CheckError(FirstCheck(FailedChecks(last')))
          /\ UNCHANGED db
     /\ \A p \in Procs : AttemptAdmitted(p) => FailedChecks(loc'[p]) = {}
     /\ \A p \in Procs :
          (pc'[p] = "idle" /\ pc[p] # "idle" /\ last'.op = "Attempt"
             /\ (last'.outcome = "AlreadyHandled" \/ (last'.outcome = "ok" /\ last'.resp.idempotency))) =>
            pc[p] \in {"attempt_lookup", "attempt_tx"}]_vars

\* a player asked for a step of another dungeon from far away on the completed
\* run of another player: three checks fail, and the first is reported
C36_Witness ==
  /\ last.op = "Attempt" /\ last.outcome = "Forbidden"
  /\ last.runId \in 1..Len(runs)
  /\ {2, 3, 4} \subseteq FailedChecks(last)

(***************************************************************************)
(* Properties of a second run of a dungeon                                 *)
(***************************************************************************)
\* player pl has completed a run of dungeon d and has no active run of it
CompletedNotActive(pl, d) ==
  /\ \E i \in 1..Len(runs) :
       runs[i].playerId = pl /\ runs[i].dungeonId = d /\ runs[i].state = "completed"
  /\ ~\E i \in 1..Len(runs) :
       runs[i].playerId = pl /\ runs[i].dungeonId = d /\ runs[i].state = "active"

\* the player of request a has an attempt record of step a.stepId in another run
SettledInOtherRun(a) ==
  \E record \in attempts :
    record.playerId = a.caller /\ record.stepId = a.stepId /\ record.runId # a.runId

\* C37: once a run of (player, dungeon) is completed and none is active, a
\* Start for the pair is not refused and creates a new active run at
\* currentStep 1 with no killed step; in the new run the attempt records of
\* the earlier run answer nothing: an Attempt on a step that has no record in
\* its own run goes to the settlement, and its settlement grants the gold and
\* the items of the step again.
C37_RestartAfterCompletion ==
  [][/\ StartAnsweredAtCheck => ~CompletedNotActive(last'.caller, last'.dungeonId)
     /\ \A p \in Procs :
          (StartAnsweredAtCreate(p) /\ CompletedNotActive(loc[p].caller, loc[p].dungeonId)) =>
            /\ last'.outcome = "ok"
            /\ Len(runs') = Len(runs) + 1
            /\ runs'[Len(runs')].playerId = loc[p].caller
            /\ runs'[Len(runs')].dungeonId = loc[p].dungeonId
            /\ runs'[Len(runs')].state = "active"
            /\ runs'[Len(runs')].currentStep = 1
            /\ runs'[Len(runs')].killedSteps = <<>>
     /\ \A p \in Procs :
          (/\ pc[p] \in {"attempt_lookup", "attempt_tx"} /\ pc'[p] # pc[p]
           /\ SettledInOtherRun(loc[p])
           /\ AttemptRecordsOf(loc[p].runId, loc[p].stepId) = {}) =>
            IF pc[p] = "attempt_lookup" THEN pc'[p] = "attempt_tx"
            ELSE \/ last'.outcome = "Error" /\ UNCHANGED db
                 \/ /\ last'.outcome = "ok" /\ ~last'.resp.idempotency
                    /\ gold'[loc[p].caller] = gold[loc[p].caller] + BossStep(loc[p].stepId).rewards.gold
                    /\ \A it \in Items :
                         inv'[loc[p].caller][it] =
                           inv[loc[p].caller][it] + RewardQty(BossStep(loc[p].stepId).rewards.items, it)
                    /\ credited'[<<loc[p].runId, loc[p].stepId>>] = 1]_vars

\* a player has completed run 1 of a dungeon, started run 2 of the same
\* dungeon and settled its first step: the step's rewards were granted twice
C37_Witness ==
  /\ Len(runs) = 2
  /\ runs[1].state = "completed"
  /\ runs[2].playerId = runs[1].playerId /\ runs[2].dungeonId = runs[1].dungeonId
  /\ credited[<<1, 1>>] = 1 /\ credited[<<2, 1>>] = 1
  /\ runs[2].currentStep = 2 \/ runs[2].state = "completed"
  /\ inv[runs[1].playerId]["sword"] = 2
  /\ gold[runs[1].playerId] >= 2 * BossStep(1).rewards.gold

(***************************************************************************)
(* Properties of the buyer of a listing                                    *)
(***************************************************************************)
\* C38: every sold listing has quantity 0 and a recorded buyer who is not its
\* seller; every active or cancelled listing has no recorded buyer.
C38_BuyerOnlyWhenSold ==
  \A i \in 1..Len(listings) :
    /\ listings[i].status = "sold" =>
         /\ listings[i].qty = 0
         /\ listings[i].buyerId \in Players
         /\ listings[i].buyerId # listings[i].sellerId
    /\ listings[i].status \in {"active", "cancelled"} => listings[i].buyerId = ""

\* a listing was sold out to a buyer
C38_Witness ==
  \E i \in 1..Len(listings) :
    /\ listings[i].status = "sold" /\ listings[i].qty = 0
    /\ listings[i].buyerId # "" /\ listings[i].buyerId # listings[i].sellerId
    /\ \E t \in 1..Len(trades) : trades[t].listingId = i /\ trades[t].buyerId = listings[i].buyerId

(***************************************************************************)
(* Properties of the Cancel of an expired listing                          *)
(***************************************************************************)
\* C39: Cancel does not look at the expiry: the Cancel of the seller on an
\* active listing whose expiry has passed gets past the checks, and its
\* transaction, when it commits on the listing as it read it, gives the
\* seller the quantity the listing has left and makes it cancelled.  Nothing
\* else brings the units of an expired listing back: inventories change only
\* when a CreateListing, a Buy or a Cancel commits, never with the time.
C39_CancelIgnoresExpiry ==
  [][/\ (CancelAnsweredAtLoad /\ ExpiredActive(last'.listingId)) =>
          /\ listings[last'.listingId].sellerId # last'.caller
          /\ last'.outcome = "Forbidden"
     /\ \A p \in Procs :
          (/\ CancelAnsweredAtTx(p)
           /\ ExpiredActive(loc[p].listingId)
           /\ listings[loc[p].listingId] = loc[p].listing) =>
            LET stored == listings[loc[p].listingId]
            IN \/ /\ last'.outcome = "ok"
                  /\ inv' = [inv EXCEPT ![stored.sellerId][stored.itemId] = @ + stored.qty]
                  /\ listings'[stored.id].status = "cancelled"
               \/ /\ last'.outcome # "ok"
                  /\ UNCHANGED <<gold, inv, listings, trades>>
     /\ inv' # inv =>
          \/ ListingCreated
          \/ \E p \in Procs : BuyCommitted(p) \/ CancelCommitted(p)
     /\ clock' # clock => UNCHANGED db]_vars

\* the seller cancelled a listing after its expiry and holds all the units
\* again
C39_Witness ==
  /\ last.op = "Cancel" /\ last.outcome = "ok"
  /\ last.out.expiresAt # 0 /\ last.out.expiresAt < clock
  /\ listings[last.listingId].status = "cancelled"
  /\ last.out.qty > 0
  /\ trades = <<>>
  /\ inv[last.caller][last.out.itemId] = 2

(***************************************************************************)
(* Properties of the arithmetic of the price                               *)
(***************************************************************************)
\* C40: the total of every successful Buy is the product of qty and
\* pricePerUnit as numbers: it is positive, the buyer's balance goes down by
\* it and the seller's balance goes up by it.
C40_TotalPriceExact ==
  [][\A p \in Procs :
       BuyCommitted(p) =>
         LET buyer == loc[p].caller
             seller == loc[p].listing.sellerId
             product == loc[p].qty * loc[p].listing.pricePerUnit
         IN /\ product > 0
            /\ trades'[Len(trades')].totalPrice = product
            /\ gold[buyer] - gold'[buyer] = product
            /\ gold'[seller] - gold[seller] = product]_vars

====
